---- MODULE Spec2Model ----
(***************************************************************************)
(* Model of the low-confidence review session of journal_ai: the review    *)
(* state kept in ChatSession.processing_states (src/chat/models.py) and    *)
(* the function-tool handlers that drive it (src/chat/function_tools.py).  *)
(*                                                                         *)
(* Texts are sequences of one-character strings so that str.strip() is     *)
(* computed, not assumed.  Confidences are percentages (1.0 = 100).        *)
(***************************************************************************)
EXTENDS Integers, Sequences, FiniteSets, TLC

(* ------------------------------ bounds --------------------------------- *)
\* longest text a user submits
MaxLen == 2
\* longest to_do list of an OCR record
MaxItems == 2

(* ------------------------- program constants --------------------------- *)
TASK_CONFIDENCE_THRESHOLD == 90
HumanConfidence == 100

(* ------------------------------- texts --------------------------------- *)
Alphabet == {" ", "a"}
Texts == UNION {[1..n -> Alphabet] : n \in 0..MaxLen}

RECURSIVE LStrip(_)
LStrip(s) == IF s = <<>> THEN s
             ELSE IF Head(s) = " " THEN LStrip(Tail(s)) ELSE s

RECURSIVE RStrip(_)
RStrip(s) == IF s = <<>> THEN s
             ELSE IF s[Len(s)] = " " THEN RStrip(SubSeq(s, 1, Len(s) - 1)) ELSE s

\* str.strip()
Strip(s) == RStrip(LStrip(s))

\* str.lower(), for the letters the texts here are written with
Lower(s) == [i \in 1..Len(s) |->
                IF s[i] = "A" THEN "a" ELSE IF s[i] = "B" THEN "b" ELSE s[i]]

(* ---------------------------- OCR records ------------------------------ *)
\* item.get('confidence') when the item has no confidence: None
Missing == -1
\* a confidence that is not a number (a string): comparing it raises TypeError
NotANumber == -2

\* sections of a record, in dict (discovery) order
Sections == <<"date", "prepare_priority", "to_do">>
SectionSet == {Sections[i] : i \in 1..Len(Sections)}

\* An item object is a dict: a record with the keys it has.  An element of
\* a list that is a bare string is held as [str |-> its characters].
\* {"task": t, "confidence": c}
OcrItem(t, c) == [task |-> t, confidence |-> c]
\* {"value": t, "confidence": c}
ValueItem(t, c) == [value |-> t, confidence |-> c]

\* isinstance(item, dict)
IsDict(item) == "str" \notin DOMAIN item

\* item.get(key) of a text field: <<>> stands for None and for '' (both falsy)
GetText(item, key) == IF key \in DOMAIN item THEN item[key] ELSE <<>>

\* item.get('confidence')
GetConfidence(item) == IF "confidence" \in DOMAIN item THEN item.confidence ELSE Missing

\* a section is a list of elements or a single object (`date`, `habit`, ...)
ListSection(items) == [shape |-> "list", items |-> items]
ScalarSection(obj) == [shape |-> "dict", object |-> obj]

\* isinstance(section_items, list)
IsList(section_items) == section_items.shape = "list"
\* truth value of a section: a non-empty list, or an object (never an empty dict)
Truthy(section_items) == IsList(section_items) => section_items.items # <<>>

\* the to_do items OCR can produce in this model: one below the threshold
\* (its text carries trailing whitespace) and one above it
ItemSet == { OcrItem(<<"a", " ">>, 60), OcrItem(<<"c">>, 95) }

SeqsUpTo(S, n) == UNION {[1..k -> S] : k \in 0..n}

\* the date of a page, read with low confidence
DateRead == ScalarSection(ValueItem(<<"a">>, 60))

Records == { [s \in SectionSet |-> IF s = "to_do" THEN ListSection(td)
                                   ELSE IF s = "date" THEN DateRead
                                   ELSE ListSection(pp)] :
               td \in SeqsUpTo(ItemSet, MaxItems),
               pp \in SeqsUpTo({OcrItem(<<"a">>, 70)}, 1) }

EmptyData == [s \in SectionSet |-> ListSection(<<>>)]

\* text = item.get('task') or item.get('item') or item.get('value') or item.get('text')
ResolvedText(item) ==
    IF GetText(item, "task") # <<>> THEN GetText(item, "task")
    ELSE IF GetText(item, "item") # <<>> THEN GetText(item, "item")
    ELSE IF GetText(item, "value") # <<>> THEN GetText(item, "value")
    ELSE GetText(item, "text")

\* field_name = 'task' if item.get('task') else 'item' if ... else None ("")
FieldUsed(item) ==
    IF GetText(item, "task") # <<>> THEN "task"
    ELSE IF GetText(item, "item") # <<>> THEN "item"
    ELSE IF GetText(item, "value") # <<>> THEN "value"
    ELSE IF GetText(item, "text") # <<>> THEN "text"
    ELSE ""

FlaggedItem_CountsFromOne(sec, idx, item) ==
    [ text          |-> ResolvedText(item),
      confidence    |-> GetConfidence(item),
      section       |-> sec,
      field_name    |-> FieldUsed(item),
      item_index    |-> idx + 1,
      original_item |-> item ]

\* one flagged item, as built by detect_low_confidence_items
FlaggedItem(sec, idx, item) ==
    [ text          |-> ResolvedText(item),
      confidence    |-> GetConfidence(item),
      section       |-> sec,
      field_name    |-> FieldUsed(item),
      item_index    |-> idx,
      original_item |-> item ]

IsLowConfidence_AtThreshold(item) ==
    /\ ResolvedText(item) # <<>>
    /\ GetConfidence(item) # Missing
    /\ GetConfidence(item) # 0
    /\ GetConfidence(item) <= TASK_CONFIDENCE_THRESHOLD
    /\ FieldUsed(item) # ""

\* the `if text and confidence and confidence < threshold and field_name` test
\* (a confidence of None or 0 is falsy)
IsLowConfidence(item) ==
    /\ ResolvedText(item) # <<>>
    /\ GetConfidence(item) # Missing
    /\ GetConfidence(item) # 0
    /\ GetConfidence(item) < TASK_CONFIDENCE_THRESHOLD
    /\ FieldUsed(item) # ""

\* the comparison `confidence < threshold` is reached with a confidence that
\* is not a number: TypeError
ComparisonRaises(item) ==
    /\ IsDict(item)
    /\ ResolvedText(item) # <<>>
    /\ GetConfidence(item) = NotANumber

\* the loop over one list section; elements that are not dicts are passed over
RECURSIVE FlagSection(_, _, _)
FlagSection(sec, items, i) ==
    IF i > Len(items) THEN <<>>
    ELSE (IF IsDict(items[i]) /\ IsLowConfidence(items[i])
          THEN <<FlaggedItem(sec, i - 1, items[i])>> ELSE <<>>)
         \o FlagSection(sec, items, i + 1)

RECURSIVE FlagFrom_LaterSectionsFirst(_, _)
FlagFrom_LaterSectionsFirst(data, k) ==
    IF k > Len(Sections) THEN <<>>
    ELSE FlagFrom_LaterSectionsFirst(data, k + 1)
         \o (IF IsList(data[Sections[k]]) /\ data[Sections[k]].items # <<>>
             THEN FlagSection(Sections[k], data[Sections[k]].items, 1) ELSE <<>>)

\* the loop over data.items(); only non-empty lists are looked into
RECURSIVE FlagFrom(_, _)
FlagFrom(data, k) ==
    IF k > Len(Sections) THEN <<>>
    ELSE (IF IsList(data[Sections[k]]) /\ data[Sections[k]].items # <<>>
          THEN FlagSection(Sections[k], data[Sections[k]].items, 1) ELSE <<>>)
         \o FlagFrom(data, k + 1)

\* OCRFormatter.detect_low_confidence_items, when it returns
detect_low_confidence_items(data) == FlagFrom(data, 1)

\* OCRFormatter.detect_low_confidence_items raises instead of returning
detect_raises(data) ==
    \E s \in SectionSet :
        /\ IsList(data[s])
        /\ \E i \in 1..Len(data[s].items) : ComparisonRaises(data[s].items[i])

(* ------------------------------ state ---------------------------------- *)
VARIABLES
    pending,        \* processing_states['pending_review']
    review,         \* processing_states['low_confidence_review']
    final_ocr_data, \* processing_states['final_ocr_data']
    uploaded,       \* the data the last upload handed to the Todoist client
    result,         \* what the last handler reported to its caller
    submits,        \* submissions accepted since the last successful start
    discarded,      \* number of reviewed entries the last cancel threw away
    pc,             \* where each in-flight process_edited_item request is suspended
    local,          \* the local variables of each in-flight request
    triage_input,   \* the record handed to detect_low_confidence_items
    triage_result,  \* what that call produced
    patch_input,    \* the record object handed to _apply_reviewed_items_to_ocr_data
    patch_reviewed, \* the reviewed list handed to it
    patch_result,   \* what that call produced
    embedding_cache, \* SBERTClient.embedding_cache: text hash -> vector
    encode_count,   \* number of model.encode calls made so far
    prev_call,      \* the get_embeddings_batch call before the last one
    last_call,      \* the last get_embeddings_batch call
    last_get,       \* the last get_embedding call
    dup_input,      \* the arguments and the environment of a check_duplicate_tasks call
    dup_result,     \* what that call produced
    todoist_client, \* the TodoistClient object: use_sbert and sbert_client
    todoist_service, \* what api.get_tasks() answers
    upload,         \* the upload_tasks_from_ocr call in progress
    api_calls,      \* the calls made on the Todoist API and on the SBERT client, in order
    cache_file,     \* the file embeddings_cache.pkl
    save_pc,        \* where the process holding the SBERT client stands
    run             \* what is remembered of the last call and of the last crash

sessionVars == <<pending, review, final_ocr_data, uploaded, result, submits, discarded, pc, local>>
triageVars  == <<triage_input, triage_result>>
patchVars   == <<patch_input, patch_reviewed, patch_result>>
\* the variables of the calls studied on their own
cacheVars   == <<embedding_cache, encode_count, prev_call, last_call, last_get>>
dupVars     == <<dup_input, dup_result>>
todoistVars == <<todoist_client, todoist_service, upload, api_calls>>
persistVars == <<cache_file, save_pc, run>>
pureVars    == <<triageVars, patchVars, cacheVars, dupVars, todoistVars, persistVars>>

vars == <<sessionVars, pureVars>>

NoPending == [present |-> FALSE, has_items |-> FALSE, items |-> <<>>, ocr_data |-> EmptyData]
NoReview  == [present |-> FALSE, items |-> <<>>, current_index |-> 0,
              reviewed_items |-> <<>>, ocr_data |-> EmptyData, active |-> FALSE]
NoData    == [present |-> FALSE, data |-> EmptyData]
NoItem    == [text |-> <<>>, confidence |-> 0, section |-> "", index |-> 0]

\* the process_edited_item requests in flight for one session id
Requests == {"r1", "r2"}
\* what they submit: a text that matches the item after strip() and an edit
ConcTexts == {<<"a">>, <<>>}
NoLocal  == [item_text |-> <<>>, current_index |-> 0]

Result(op, kind, count, item) == [op |-> op, kind |-> kind, count |-> count, item |-> item]

\* the current_item / next_prefill_item summary of a function_result
Prefill(item, idx) ==
    [text |-> item.text, confidence |-> item.confidence, section |-> item.section, index |-> idx]

(* --------------------- ChatSession (chat/models.py) -------------------- *)
set_low_confidence_review_state_OneBased(low_confidence_items, ocr_data) ==
    [ present        |-> TRUE,
      items          |-> low_confidence_items,
      current_index  |-> 1,
      reviewed_items |-> <<>>,
      ocr_data       |-> ocr_data,
      active         |-> TRUE ]

\* ChatSession.set_low_confidence_review_state
set_low_confidence_review_state(low_confidence_items, ocr_data) ==
    [ present        |-> TRUE,
      items          |-> low_confidence_items,
      current_index  |-> 0,
      reviewed_items |-> <<>>,
      ocr_data       |-> ocr_data,
      active         |-> TRUE ]

clear_low_confidence_review_state_KeepsEntries(rs) == [rs EXCEPT !.active = FALSE]

\* ChatSession.clear_low_confidence_review_state
clear_low_confidence_review_state(rs) == NoReview

NoActiveReview_IgnoresActive(rs) == ~rs.present

\* the `not review_state or not review_state.get('active')` test
NoActiveReview(rs) == ~rs.present \/ ~rs.active

(* ------------- _process_edited_item_stream, piece by piece ------------- *)
\* user_edited = item_text.strip() != original_text.strip()
UserEdited(current_item, item_text) == Strip(item_text) # Strip(current_item.text)

ReviewedEntry_DropsOriginal(current_item, item_text) ==
    IF UserEdited(current_item, item_text)
    THEN [current_item EXCEPT !.text = Strip(item_text),
                              !.confidence = HumanConfidence,
                              !.original_item = OcrItem(Strip(item_text),
                                                                        HumanConfidence)]
    ELSE current_item

\* the entry appended to reviewed_items
ReviewedEntry(current_item, item_text) ==
    IF UserEdited(current_item, item_text)
    THEN [current_item EXCEPT !.text = Strip(item_text),
                              !.confidence = HumanConfidence,
                              !.original_item = current_item.original_item]
    ELSE current_item

AppendReviewed_SkipsAccepted(rs, item_text) ==
    IF UserEdited(rs.items[rs.current_index + 1], item_text)
    THEN [rs EXCEPT !.reviewed_items =
             Append(@, ReviewedEntry(rs.items[rs.current_index + 1], item_text))]
    ELSE rs

\* review_state['reviewed_items'].append(...)
AppendReviewed(rs, item_text) ==
    [rs EXCEPT !.reviewed_items =
        Append(@, ReviewedEntry(rs.items[rs.current_index + 1], item_text))]

MoveToNext_DoubleStep(rs) ==
    LET moved == [rs EXCEPT !.current_index = @ + 2]
    IN  IF moved.current_index >= Len(moved.items)
        THEN [moved EXCEPT !.active = FALSE]
        ELSE moved

MoveToNext_OffByOne(rs) ==
    LET moved == [rs EXCEPT !.current_index = @ + 1]
    IN  IF moved.current_index > Len(moved.items)
        THEN [moved EXCEPT !.active = FALSE]
        ELSE moved

\* review_state['current_index'] += 1, then the "are we done" test
MoveToNext(rs) ==
    LET moved == [rs EXCEPT !.current_index = @ + 1]
    IN  IF moved.current_index >= Len(moved.items)
        THEN [moved EXCEPT !.active = FALSE]
        ELSE moved

(* ------------------- _apply_reviewed_items_to_ocr_data ----------------- *)
\* the guards in front of section_items[item_index]: section named, present
\* and truthy, a list, and item_index < len (true of every negative index)
PassesIndexTest(data, review_item) ==
    /\ review_item.section # ""
    /\ review_item.section \in DOMAIN data
    /\ Truthy(data[review_item.section])
    /\ IsList(data[review_item.section])
    /\ review_item.item_index < Len(data[review_item.section].items)

\* section_items[item_index] raises IndexError: an index below -len
PatchRaises(data, review_item) ==
    /\ PassesIndexTest(data, review_item)
    /\ review_item.item_index < 0 - Len(data[review_item.section].items)

\* the position (1-based here) Python's section_items[item_index] denotes;
\* a negative index counts from the end of the list
Position(section_items, item_index) ==
    IF item_index >= 0 THEN item_index + 1
    ELSE Len(section_items) + item_index + 1

\* target_item[field_name] = new_text; target_item['confidence'] = confidence
SetFields(target_item, field_name, new_text, confidence) ==
    [key \in DOMAIN target_item \cup {field_name, "confidence"} |->
        IF key = field_name THEN new_text
        ELSE IF key = "confidence" THEN confidence
        ELSE target_item[key]]

\* one iteration of the loop over reviewed_items: the index-based update
PatchItem(data, review_item) ==
    LET section    == review_item.section
        item_index == review_item.item_index
    IN  IF /\ PassesIndexTest(data, review_item)
           /\ ~PatchRaises(data, review_item)
           /\ IsDict(data[section].items[Position(data[section].items, item_index)])
        THEN [data EXCEPT ![section].items[Position(data[section].items, item_index)] =
                 SetFields(@, review_item.field_name, review_item.text,
                           review_item.confidence)]
        ELSE data

\* the loop, on the copy: the data reached and whether an exception ended it
RECURSIVE PatchFrom(_, _, _)
PatchFrom(data, reviewed_items, i) ==
    IF i > Len(reviewed_items) THEN [raised |-> FALSE, data |-> data]
    ELSE IF PatchRaises(data, reviewed_items[i]) THEN [raised |-> TRUE, data |-> data]
    ELSE PatchFrom(PatchItem(data, reviewed_items[i]), reviewed_items, i + 1)

\* the `except` path is taken: `return original_data`, the caller's own object
ReturnsOriginal(original_data, reviewed_items) ==
    PatchFrom(original_data, reviewed_items, 1).raised

\* _apply_reviewed_items_to_ocr_data: the loop runs on copy.deepcopy of
\* original_data; the copy is returned, or original_data when the loop raised
apply_reviewed_items_to_ocr_data(original_data, reviewed_items) ==
    LET outcome == PatchFrom(original_data, reviewed_items, 1)
    IN  IF outcome.raised THEN original_data ELSE outcome.data

(* ----------------------- _upload_to_todoist_stream --------------------- *)
HasReviewedItems_AlsoWhileActive(rs) == rs.present /\ rs.reviewed_items # <<>>

\* has_reviewed_items: a review that is finished and has entries
HasReviewedItems(rs) == rs.present /\ ~rs.active /\ rs.reviewed_items # <<>>

\* task_data arguments of upload_to_todoist: parsed JSON records
TaskDataInputs == { EmptyData,
                    [s \in SectionSet |-> IF s = "to_do" THEN ListSection(<<OcrItem(<<"c">>, 95)>>)
                                          ELSE ListSection(<<>>)] }

(* ------------------------------- Init ---------------------------------- *)
\* the "Store results in session" step of _process_journal_image_stream:
\* the pending_review entry written for a list of detected items
PendingReviewFor(low_confidence_items, ocr_data) ==
    IF low_confidence_items # <<>>
    THEN [present |-> TRUE, has_items |-> TRUE,
          items |-> low_confidence_items, ocr_data |-> ocr_data]
    ELSE [present |-> TRUE, has_items |-> FALSE,
          items |-> <<>>, ocr_data |-> EmptyData]

\* The handlers receive the session as an argument.  Its pending_review is
\* either absent or the entry stored for the items detected in a record.
\* (_process_journal_image_stream itself runs the store step only inside the
\* `except` of its formatting step, after low_confidence_items was reset to
\* [], so ProcessJournalImage below only ever writes the entry without items;
\* entries with items come in with the session.)
PendingInputs ==
    {NoPending} \cup
    { PendingReviewFor(detect_low_confidence_items(r), r) : r \in Records }

\* no call of detect_low_confidence_items / of the patch function under study
NoTriage == [done |-> FALSE, raised |-> FALSE, items |-> <<>>]
NoPatch  == [done |-> FALSE, input_before |-> <<>>, data |-> <<>>,
             same_object |-> FALSE]

\* no get_embeddings_batch call yet
NoCall == [done |-> FALSE, texts |-> <<>>, result |-> <<>>, encode_args |-> <<>>,
           cached_before |-> {}]

TriageIdle == triage_input = <<>> /\ triage_result = NoTriage
PatchIdle  == patch_input = <<>> /\ patch_reviewed = <<>> /\ patch_result = NoPatch
\* no get_embedding call yet
NoGet == [done |-> FALSE, text |-> <<>>, result |-> <<>>, encoded |-> FALSE]

CacheIdle  == /\ embedding_cache = <<>>
              /\ encode_count = 0
              /\ prev_call = NoCall
              /\ last_call = NoCall
              /\ last_get = NoGet

\* no check_duplicate_tasks call under study
NoDup == [done |-> FALSE, returned |-> <<>>, mode |-> "none", encode_calls |-> 0]
DupIdle == dup_input = <<>> /\ dup_result = NoDup

\* no upload_tasks_from_ocr call under study
NoUpload == [pc |-> "none"]
TodoistIdle == /\ todoist_client = <<>>
               /\ todoist_service = <<>>
               /\ upload = NoUpload
               /\ api_calls = <<>>

\* no process with a cache file under study
PersistIdle == cache_file = <<>> /\ save_pc = "none" /\ run = [crash_point |-> "none"]

\* a session nothing has been stored in
SessionIdle ==
    /\ pending = NoPending
    /\ review = NoReview
    /\ final_ocr_data = NoData
    /\ uploaded = NoData
    /\ result = Result("none", "none", 0, NoItem)
    /\ submits = 0
    /\ discarded = 0
    /\ pc = [r \in Requests |-> "idle"]
    /\ local = [r \in Requests |-> NoLocal]

Init ==
    /\ pending \in PendingInputs
    /\ review = NoReview
    /\ final_ocr_data = NoData
    /\ uploaded = NoData
    /\ result = Result("none", "none", 0, NoItem)
    /\ submits = 0
    /\ discarded = 0
    /\ pc = [r \in Requests |-> "idle"]
    /\ local = [r \in Requests |-> NoLocal]
    /\ TriageIdle
    /\ PatchIdle
    /\ CacheIdle
    /\ DupIdle
    /\ TodoistIdle
    /\ PersistIdle

(* ------------------------------ actions -------------------------------- *)
\* _start_review_from_session_stream
StartReviewFromSession ==
    /\ UNCHANGED <<pc, local, pureVars>>
    /\ IF ~pending.present
       THEN /\ result' = Result("start", "no_pending_review", 0, NoItem)
            /\ UNCHANGED <<pending, review, final_ocr_data, uploaded, submits, discarded>>
       ELSE
         LET items     == pending.items
             has_items == IF pending.has_items /\ items = <<>> THEN FALSE
                          ELSE IF ~pending.has_items /\ items # <<>> THEN TRUE
                          ELSE pending.has_items
         IN  /\ pending' = [pending EXCEPT !.has_items = has_items]
             /\ IF ~has_items
                THEN /\ result' = Result("start", "no_low_confidence_items", 0, NoItem)
                     /\ UNCHANGED <<review, submits>>
                ELSE IF items = <<>>
                THEN /\ result' = Result("start", "no_items_to_review", 0, NoItem)
                     /\ UNCHANGED <<review, submits>>
                ELSE /\ review' = set_low_confidence_review_state(items, pending.ocr_data)
                     /\ submits' = 0
                     /\ result' = Result("start", "start_prefill_editing", Len(items),
                                         Prefill(items[1], 1))
             /\ UNCHANGED <<final_ocr_data, uploaded, discarded>>

\* _process_edited_item_stream
ProcessEditedItem(item_text) ==
    /\ UNCHANGED <<pc, local, pureVars>>
    /\ IF NoActiveReview(review)
       THEN /\ result' = Result("submit", "no_active_review", 0, NoItem)
            /\ UNCHANGED <<pending, review, final_ocr_data, uploaded, submits, discarded>>
       ELSE IF review.current_index >= Len(review.items)
       THEN \* items[current_index] raises IndexError, caught by the handler
            /\ result' = Result("submit", "processing_failed", 0, NoItem)
            /\ UNCHANGED <<pending, review, final_ocr_data, uploaded, submits, discarded>>
       ELSE
         LET rs == MoveToNext(AppendReviewed(review, item_text))
         IN  /\ review' = rs
             /\ submits' = submits + 1
             /\ IF ~rs.active
                THEN /\ pending' = NoPending
                     /\ result' = Result("submit", "review_complete",
                                         Len(rs.reviewed_items), NoItem)
                ELSE IF rs.current_index >= Len(rs.items)
                THEN \* items[next_index] raises IndexError, caught by the handler
                     /\ pending' = pending
                     /\ result' = Result("submit", "processing_failed", 0, NoItem)
                ELSE /\ pending' = pending
                     /\ result' = Result("submit", "next_prefill_item", Len(rs.items),
                                         Prefill(rs.items[rs.current_index + 1],
                                                 rs.current_index + 1))
             /\ UNCHANGED <<final_ocr_data, uploaded, discarded>>

\* ChatSession.clear_low_confidence_review_state, called by the owner of the
\* session to abandon a review
CancelReview ==
    /\ review' = clear_low_confidence_review_state(review)
    /\ submits' = 0
    /\ discarded' = Len(review.reviewed_items)
    /\ result' = Result("cancel", "cleared", 0, NoItem)
    /\ UNCHANGED <<pending, final_ocr_data, uploaded, pc, local, pureVars>>

\* _upload_to_todoist_stream; json_ok: task_data parses, todoist_ok: the
\* Todoist client returns instead of raising
UploadToTodoist(task_data, json_ok, todoist_ok) ==
    /\ UNCHANGED <<pc, local, pureVars>>
    /\ IF ~final_ocr_data.present /\ ~json_ok
       THEN \* json.loads raises before anything is touched
            /\ result' = Result("upload", "upload_failed", 0, NoItem)
            /\ UNCHANGED <<pending, review, final_ocr_data, uploaded, submits, discarded>>
       ELSE
         LET has_reviewed_items == HasReviewedItems(review)
             parsed_data ==
                 IF has_reviewed_items
                 THEN apply_reviewed_items_to_ocr_data(review.ocr_data, review.reviewed_items)
                 ELSE IF final_ocr_data.present THEN final_ocr_data.data ELSE task_data
         IN  /\ IF has_reviewed_items
                THEN /\ final_ocr_data' = [present |-> TRUE, data |-> parsed_data]
                     /\ review' = clear_low_confidence_review_state(review)
                     /\ submits' = 0
                ELSE UNCHANGED <<final_ocr_data, review, submits>>
             /\ IF todoist_ok
                THEN /\ uploaded' = [present |-> TRUE, data |-> parsed_data]
                     /\ result' = Result("upload", "uploaded",
                                         IF has_reviewed_items THEN Len(review.reviewed_items) ELSE 0,
                                         NoItem)
                ELSE /\ uploaded' = uploaded
                     /\ result' = Result("upload", "upload_failed", 0, NoItem)
             /\ UNCHANGED <<pending, discarded>>

\* the pages read by OCR in this model: one to_do line at most
PageRecords == { r \in Records : /\ r.prepare_priority.items = <<>>
                                  /\ Len(r.to_do.items) <= 1 }

\* what can happen inside _process_journal_image_stream
ImageOutcomes == {"file_not_found", "detection_failed", "ocr_failed",
                  "formatted", "format_failed"}

\* _process_journal_image_stream on a page whose OCR answer is ocr_data:
\* nothing is touched when the file is unknown; otherwise processing_states is
\* cleared, and pending_review is written only on the path through the
\* formatting `except` (with an empty item list).  The function_result of a
\* formatted page carries the detected low_confidence_items (their number is
\* kept in the result).
ProcessJournalImage(outcome, ocr_data) ==
    /\ UNCHANGED <<pc, local, pureVars>>
    /\ IF outcome = "file_not_found"
       THEN /\ result' = Result("process_image", outcome, 0, NoItem)
            /\ UNCHANGED <<pending, review, final_ocr_data, uploaded, submits, discarded>>
       ELSE \* session.processing_states.clear()
            /\ review' = NoReview
            /\ final_ocr_data' = NoData
            /\ submits' = 0
            /\ pending' = IF outcome = "format_failed"
                          THEN PendingReviewFor(<<>>, EmptyData)
                          ELSE NoPending
            /\ result' = Result("process_image", outcome,
                                IF outcome = "formatted"
                                THEN Len(detect_low_confidence_items(ocr_data)) ELSE 0,
                                NoItem)
            /\ discarded' = 0
            /\ UNCHANGED uploaded

Next ==
    \/ StartReviewFromSession
    \/ \E t \in Texts : ProcessEditedItem(t)
    \/ CancelReview
    \/ \E td \in TaskDataInputs, j \in BOOLEAN, ok \in BOOLEAN : UploadToTodoist(td, j, ok)
    \/ \E o \in ImageOutcomes \ {"formatted"} : ProcessJournalImage(o, EmptyData)
    \/ \E r \in PageRecords : ProcessJournalImage("formatted", r)

Spec == Init /\ [][Next]_vars

(* ------------- overlapping process_edited_item requests ---------------- *)
\* GET /message/stream takes no per-session lock (chat/routes.py), so two
\* requests for one session id run as two tasks of the event loop.  Each
\* runs _process_edited_item_stream and can be suspended wherever the
\* handler yields a progress event or awaits asyncio.sleep; the steps below
\* are the stretches of the handler between two such points.

\* the handler is entered: first progress event, sleep(0.2)
SubmitBegin(r, item_text) ==
    /\ pc[r] = "idle"
    /\ pc' = [pc EXCEPT ![r] = "read"]
    /\ local' = [local EXCEPT ![r] = [item_text |-> item_text, current_index |-> 0]]
    /\ UNCHANGED <<pending, review, final_ocr_data, uploaded, result, submits, discarded, pureVars>>

\* review state fetched and tested, current_index and current_item read,
\* user_edited computed; suspended at the "Item updated"/"accepted" event
SubmitRead(r) ==
    /\ pc[r] = "read"
    /\ IF NoActiveReview(review)
       THEN /\ result' = Result("submit", "no_active_review", 0, NoItem)
            /\ pc' = [pc EXCEPT ![r] = "idle"]
            /\ local' = [local EXCEPT ![r] = NoLocal]
       ELSE IF review.current_index >= Len(review.items)
       THEN /\ result' = Result("submit", "processing_failed", 0, NoItem)
            /\ pc' = [pc EXCEPT ![r] = "idle"]
            /\ local' = [local EXCEPT ![r] = NoLocal]
       ELSE /\ result' = result
            /\ pc' = [pc EXCEPT ![r] = "append"]
            /\ local' = [local EXCEPT ![r].current_index = review.current_index]
    /\ UNCHANGED <<pending, review, final_ocr_data, uploaded, submits, discarded, pureVars>>

\* the entry for the item read earlier is appended; suspended in sleep(0.3)
SubmitAppend(r) ==
    /\ pc[r] = "append"
    /\ review' = [review EXCEPT !.reviewed_items =
                     Append(@, ReviewedEntry(review.items[local[r].current_index + 1],
                                             local[r].item_text))]
    /\ pc' = [pc EXCEPT ![r] = "advance"]
    /\ UNCHANGED <<pending, final_ocr_data, uploaded, result, submits, discarded, local, pureVars>>

\* current_index += 1 and the "are we done" test; suspended at the progress
\* event of the branch taken
SubmitAdvance(r) ==
    /\ pc[r] = "advance"
    /\ LET rs == MoveToNext(review)
       IN  /\ review' = rs
           /\ submits' = submits + 1
           /\ IF ~rs.active
              THEN /\ pc' = [pc EXCEPT ![r] = "complete"]
                   /\ local' = local
              ELSE /\ pc' = [pc EXCEPT ![r] = "continue"]
                   /\ local' = [local EXCEPT ![r].current_index = rs.current_index]
    /\ UNCHANGED <<pending, final_ocr_data, uploaded, result, discarded, pureVars>>

\* pending_review deleted, completion result yielded
SubmitComplete(r) ==
    /\ pc[r] = "complete"
    /\ pending' = NoPending
    /\ result' = Result("submit", "review_complete", Len(review.reviewed_items), NoItem)
    /\ pc' = [pc EXCEPT ![r] = "idle"]
    /\ local' = [local EXCEPT ![r] = NoLocal]
    /\ UNCHANGED <<review, final_ocr_data, uploaded, submits, discarded, pureVars>>

\* continuation result for the next item yielded
SubmitContinue(r) ==
    /\ pc[r] = "continue"
    /\ result' = Result("submit", "next_prefill_item", Len(review.items),
                        Prefill(review.items[local[r].current_index + 1],
                                local[r].current_index + 1))
    /\ pc' = [pc EXCEPT ![r] = "idle"]
    /\ local' = [local EXCEPT ![r] = NoLocal]
    /\ UNCHANGED <<pending, review, final_ocr_data, uploaded, submits, discarded, pureVars>>

\* a start request served while no submit request is in flight
StartWhenIdle ==
    /\ \A r \in Requests : pc[r] = "idle"
    /\ StartReviewFromSession

NextConc ==
    \/ StartWhenIdle
    \/ \E r \in Requests, t \in ConcTexts : SubmitBegin(r, t)
    \/ \E r \in Requests : SubmitRead(r)
    \/ \E r \in Requests : SubmitAppend(r)
    \/ \E r \in Requests : SubmitAdvance(r)
    \/ \E r \in Requests : SubmitComplete(r)
    \/ \E r \in Requests : SubmitContinue(r)

SpecConc == Init /\ [][NextConc]_vars

(* --------------- detect_low_confidence_items on its own ---------------- *)
\* a bare string among the elements of a list
StrElement == [str |-> <<"a">>]

\* the elements a to_do list is drawn from: confidences below, at and above
\* the threshold, zero, absent and not a number; the text in each of the
\* fields the code looks at, in none of them, and in two at once
TriageItems ==
    { OcrItem(<<"a">>, 60), OcrItem(<<"a">>, TASK_CONFIDENCE_THRESHOLD),
      OcrItem(<<"a">>, 95), OcrItem(<<"a">>, 0), [task |-> <<"a">>],
      OcrItem(<<"a">>, NotANumber), OcrItem(<<>>, 60),
      [item |-> <<"b">>, value |-> <<"a">>, confidence |-> 60],
      [text |-> <<"a">>, confidence |-> 60],
      StrElement }

TriageRecords ==
    { [s \in SectionSet |-> IF s = "to_do" THEN ListSection(td)
                            ELSE IF s = "date" THEN dt
                            ELSE ListSection(pp)] :
        td \in SeqsUpTo(TriageItems, MaxItems),
        dt \in {DateRead, ScalarSection(ValueItem(<<"a">>, 95))},
        pp \in SeqsUpTo({OcrItem(<<"a">>, 70)}, 1) }

InitTriage ==
    /\ triage_input \in TriageRecords
    /\ triage_result = NoTriage
    /\ SessionIdle
    /\ PatchIdle
    /\ CacheIdle
    /\ DupIdle
    /\ TodoistIdle
    /\ PersistIdle

\* one call of OCRFormatter.detect_low_confidence_items(data)
DetectLowConfidenceItems ==
    /\ ~triage_result.done
    /\ triage_result' =
          IF detect_raises(triage_input)
          THEN [done |-> TRUE, raised |-> TRUE, items |-> <<>>]
          ELSE [done |-> TRUE, raised |-> FALSE,
                items |-> detect_low_confidence_items(triage_input)]
    /\ UNCHANGED <<triage_input, sessionVars, patchVars, cacheVars, dupVars, todoistVars, persistVars>>

NextTriage == DetectLowConfidenceItems

SpecTriage == InitTriage /\ [][NextTriage]_vars

(* ------------- _apply_reviewed_items_to_ocr_data on its own ------------ *)
\* longest reviewed list handed to the patch function
MaxReviewed == 2

\* a to_do item of a weekly page: {"item": ..., "completed": ..., "confidence": ...}
WeeklyItem == [item |-> <<"c">>, completed |-> TRUE, confidence |-> 95]

PatchRecords ==
    { [s \in SectionSet |-> IF s = "to_do" THEN ListSection(td)
                            ELSE IF s = "date" THEN DateRead
                            ELSE ListSection(<<>>)] :
        td \in SeqsUpTo(ItemSet \cup {StrElement, WeeklyItem}, MaxItems) }

\* a reviewed entry as the patch function reads it
ReviewedItem(section, item_index, text, confidence) ==
    [ text          |-> text,
      confidence    |-> confidence,
      section       |-> section,
      field_name    |-> "task",
      item_index    |-> item_index,
      original_item |-> OcrItem(<<"a">>, 60) ]

\* entries addressing the to_do list at every index from below -len to past
\* the end, an entry that was accepted as it was, an entry addressing a
\* section that is a single object and one addressing a section not there
ReviewedInputs ==
    { ReviewedItem("to_do", i, <<"b">>, HumanConfidence) :
          i \in (0 - (MaxItems + 1))..MaxItems }
    \cup { ReviewedItem("to_do", 0, <<"a">>, 60),
           ReviewedItem("date", 0, <<"b">>, HumanConfidence),
           ReviewedItem("habit", 0, <<"b">>, HumanConfidence) }

InitPatch ==
    /\ patch_input \in PatchRecords
    /\ patch_reviewed \in SeqsUpTo(ReviewedInputs, MaxReviewed)
    /\ patch_result = NoPatch
    /\ SessionIdle
    /\ TriageIdle
    /\ CacheIdle
    /\ DupIdle
    /\ TodoistIdle
    /\ PersistIdle

\* one call of _apply_reviewed_items_to_ocr_data(original_data, reviewed_items):
\* the caller's object is left as it was (the loop works on the deep copy)
ApplyReviewedItems ==
    /\ ~patch_result.done
    /\ patch_result' =
          [ done         |-> TRUE,
            input_before |-> patch_input,
            data         |-> apply_reviewed_items_to_ocr_data(patch_input, patch_reviewed),
            same_object  |-> ReturnsOriginal(patch_input, patch_reviewed) ]
    /\ UNCHANGED <<patch_input, patch_reviewed, sessionVars, triageVars, cacheVars, dupVars, todoistVars, persistVars>>

NextPatch == ApplyReviewedItems

SpecPatch == InitPatch /\ [][NextPatch]_vars

(* ------------------- SBERTClient (sbert_client.py) --------------------- *)
\* longest list of texts handed to get_embeddings_batch
MaxBatch == 3

\* the task texts embedded
EmbedTexts == {<<"a">>, <<"b">>}
TextLists == SeqsUpTo(EmbedTexts, MaxBatch)

\* _get_text_hash: the md5 digest of the text as it is given, one per text
get_text_hash(text) == <<"md5", text>>

\* model.encode(texts): one vector per text, in the order given; a vector
\* is known by its text and by the encode call that computed it
encode(texts, call) == [i \in 1..Len(texts) |-> <<texts[i], call>>]

\* the first loop: the texts whose hash is not in the cache, in input order
RECURSIVE UncachedTexts(_, _)
UncachedTexts(texts, cache) ==
    IF texts = <<>> THEN <<>>
    ELSE (IF get_text_hash(Head(texts)) \in DOMAIN cache THEN <<>> ELSE <<Head(texts)>>)
         \o UncachedTexts(Tail(texts), cache)

\* the texts of a list
TextsOf(texts) == {texts[i] : i \in 1..Len(texts)}

\* the local dict cached_embeddings at the end of the call, keyed by text:
\* the cached vector of a text found in the cache, else the vector encode
\* returned for it (the last one, if the text was passed more than once)
CachedEmbeddings(texts, cache, uncached_texts, new_embeddings) ==
    [t \in TextsOf(texts) |->
        IF get_text_hash(t) \in DOMAIN cache THEN cache[get_text_hash(t)]
        ELSE LET last == CHOOSE i \in 1..Len(uncached_texts) :
                            /\ uncached_texts[i] = t
                            /\ \A j \in (i + 1)..Len(uncached_texts) : uncached_texts[j] # t
             IN  new_embeddings[last]]

CacheAfter_NotStored(cache, uncached_texts, new_embeddings) == cache

\* the second loop: self.embedding_cache[text_hash] = embedding_np for every
\* pair of the zip (a later pair for the same hash overwrites an earlier one)
CacheAfter(cache, uncached_texts, new_embeddings) ==
    [h \in DOMAIN cache \cup {get_text_hash(uncached_texts[i]) : i \in 1..Len(uncached_texts)} |->
        IF \E i \in 1..Len(uncached_texts) : get_text_hash(uncached_texts[i]) = h
        THEN LET last == CHOOSE i \in 1..Len(uncached_texts) :
                            /\ get_text_hash(uncached_texts[i]) = h
                            /\ \A j \in (i + 1)..Len(uncached_texts) :
                                  get_text_hash(uncached_texts[j]) # h
             IN  new_embeddings[last]
        ELSE cache[h]]

MergeInOrder_SkipsRepeats(texts, cached_embeddings) ==
    LET RECURSIVE Distinct(_, _)
        Distinct(ts, seen) ==
            IF ts = <<>> THEN <<>>
            ELSE (IF Head(ts) \in seen THEN <<>> ELSE <<cached_embeddings[Head(ts)]>>)
                 \o Distinct(Tail(ts), seen \cup {Head(ts)})
    IN  Distinct(texts, {})

\* return [cached_embeddings[text] for text in texts]
MergeInOrder(texts, cached_embeddings) ==
    [i \in 1..Len(texts) |-> cached_embeddings[texts[i]]]

\* the cache read by _load_cache when the client is made: empty, or the
\* vectors an earlier process computed (call 0) for some of the texts
LoadedCaches ==
    { [h \in {get_text_hash(t) : t \in S} |-> <<h[2], 0>>] : S \in SUBSET EmbedTexts }

InitCache ==
    /\ embedding_cache \in LoadedCaches
    /\ encode_count = 0
    /\ prev_call = NoCall
    /\ last_call = NoCall
    /\ last_get = NoGet
    /\ SessionIdle
    /\ TriageIdle
    /\ PatchIdle
    /\ DupIdle
    /\ TodoistIdle
    /\ PersistIdle

\* SBERTClient.get_embedding(text): the cached vector of the text's hash, or
\* else one model.encode call whose vector is stored under that hash
GetEmbedding(text) ==
    LET text_hash == get_text_hash(text)
        cached    == text_hash \in DOMAIN embedding_cache
        embedding == encode(<<text>>, encode_count + 1)[1]
    IN  /\ embedding_cache' =
              IF cached THEN embedding_cache
              ELSE CacheAfter(embedding_cache, <<text>>, <<embedding>>)
        /\ encode_count' = IF cached THEN encode_count ELSE encode_count + 1
        /\ last_get' = [ done    |-> TRUE,
                         text    |-> text,
                         result  |-> IF cached THEN embedding_cache[text_hash] ELSE embedding,
                         encoded |-> ~cached ]
        /\ UNCHANGED <<prev_call, last_call, sessionVars, triageVars, patchVars, dupVars, todoistVars, persistVars>>

\* SBERTClient.get_embeddings_batch(texts)
GetEmbeddingsBatch(texts) ==
    LET uncached_texts == UncachedTexts(texts, embedding_cache)
        new_embeddings == encode(uncached_texts, encode_count + 1)
        cache_after    == IF uncached_texts # <<>>
                          THEN CacheAfter(embedding_cache, uncached_texts, new_embeddings)
                          ELSE embedding_cache
    IN  /\ embedding_cache' = cache_after
        /\ encode_count' = IF uncached_texts # <<>> THEN encode_count + 1 ELSE encode_count
        /\ prev_call' = last_call
        /\ last_call' =
              [ done          |-> TRUE,
                texts         |-> texts,
                result        |-> MergeInOrder(texts,
                                     CachedEmbeddings(texts, embedding_cache,
                                                      uncached_texts, new_embeddings)),
                encode_args   |-> IF uncached_texts # <<>> THEN <<uncached_texts>> ELSE <<>>,
                cached_before |-> {t \in EmbedTexts : get_text_hash(t) \in DOMAIN embedding_cache} ]
        /\ UNCHANGED <<last_get, sessionVars, triageVars, patchVars, dupVars, todoistVars, persistVars>>

NextCache ==
    \/ \E t \in EmbedTexts : GetEmbedding(t)
    \/ \E ts \in TextLists : GetEmbeddingsBatch(ts)

SpecCache == InitCache /\ [][NextCache]_vars

(* ---------------- the cache key of get_embedding on its own ------------- *)
\* texts that differ only in case or in surrounding blanks, and one that
\* differs in a letter
KeyTexts == {<<"a">>, <<"A">>, <<" ", "a">>, <<"b">>}

\* the caches _load_cache can read: empty, or what an earlier process stored
\* for some of the texts
CachesLoadedFor(texts) ==
    { [h \in {get_text_hash(t) : t \in S} |-> <<h[2], 0>>] : S \in SUBSET texts }

InitCacheKey ==
    /\ embedding_cache \in CachesLoadedFor(KeyTexts)
    /\ encode_count = 0
    /\ prev_call = NoCall
    /\ last_call = NoCall
    /\ last_get = NoGet
    /\ SessionIdle
    /\ TriageIdle
    /\ PatchIdle
    /\ DupIdle
    /\ TodoistIdle
    /\ PersistIdle

NextCacheKey == \E t \in KeyTexts : GetEmbedding(t)

SpecCacheKey == InitCacheKey /\ [][NextCacheKey]_vars

(* ------------- the cache file across a crash of the process ------------ *)
\* most crashes of the process in one behaviour
MaxCrashes == 1

\* the file: not there ("absent"), holding the pickled dict ("intact"), or
\* cut short ("unreadable": opened for writing and not written to the end)
CacheFile(state, content) == [state |-> state, content |-> content]

load_cache_StartsEmpty(file) == <<>>

\* _load_cache: the dict of the file, {} when there is no file or
\* pickle.load raises
load_cache(file) == IF file.state = "intact" THEN file.content ELSE <<>>

InitPersist ==
    /\ cache_file \in {CacheFile("absent", <<>>)}
                     \cup {CacheFile("intact", c) : c \in CachesLoadedFor(EmbedTexts)}
    /\ embedding_cache = load_cache(cache_file)
    /\ encode_count = 0
    /\ save_pc = "idle"
    /\ run = [crash_point |-> "none", crashes |-> 0, store_at_call |-> cache_file.content,
              store_before |-> <<>>, expected |-> <<>>, requested |-> {}]
    /\ prev_call = NoCall
    /\ last_call = NoCall
    /\ last_get = NoGet
    /\ SessionIdle
    /\ TriageIdle
    /\ PatchIdle
    /\ DupIdle
    /\ TodoistIdle

\* get_embeddings_batch(texts) up to the call of _save_cache: the first loop,
\* model.encode and the loop that stores the new vectors in embedding_cache.
\* Without an uncached text the call returns here and saves nothing.
BatchCompute(texts) ==
    LET uncached_texts == UncachedTexts(texts, embedding_cache)
        new_embeddings == encode(uncached_texts, encode_count + 1)
    IN  /\ save_pc = "idle"
        /\ run' = [run EXCEPT !.store_at_call = cache_file.content,
                              !.requested = @ \cup {get_text_hash(t) : t \in TextsOf(texts)}]
        /\ IF uncached_texts = <<>>
           THEN UNCHANGED <<embedding_cache, encode_count, save_pc>>
           ELSE /\ embedding_cache' = CacheAfter(embedding_cache, uncached_texts, new_embeddings)
                /\ encode_count' = encode_count + 1
                /\ save_pc' = "computed"
        /\ UNCHANGED <<cache_file, prev_call, last_call, last_get,
                       sessionVars, triageVars, patchVars, dupVars, todoistVars>>

\* _save_cache, `open(self.cache_file, 'wb')`: the file is emptied; when open
\* raises, the warning is logged and the file stays as it was
SaveOpen(open_ok) ==
    /\ save_pc = "computed"
    /\ IF open_ok
       THEN cache_file' = CacheFile("unreadable", <<>>) /\ save_pc' = "saving"
       ELSE cache_file' = cache_file /\ save_pc' = "idle"
    /\ UNCHANGED <<run, cacheVars, sessionVars, triageVars, patchVars, dupVars, todoistVars>>

\* _save_cache, `pickle.dump(self.embedding_cache, f)`: the whole dict is
\* written; when the write raises, the warning is logged and the file stays
\* cut short
SaveDump(dump_ok) ==
    /\ save_pc = "saving"
    /\ cache_file' = IF dump_ok THEN CacheFile("intact", embedding_cache)
                     ELSE CacheFile("unreadable", <<>>)
    /\ save_pc' = "idle"
    /\ UNCHANGED <<run, cacheVars, sessionVars, triageVars, patchVars, dupVars, todoistVars>>

\* the process dies: embedding_cache is gone, the file is what it was
Crash ==
    /\ save_pc \in {"idle", "computed", "saving"}
    /\ run.crashes < MaxCrashes
    /\ run' = [run EXCEPT !.crash_point = save_pc,
                          !.crashes = @ + 1,
                          !.store_before = run.store_at_call,
                          !.expected = embedding_cache,
                          !.requested = {}]
    /\ save_pc' = "down"
    /\ embedding_cache' = <<>>
    /\ UNCHANGED <<cache_file, encode_count, prev_call, last_call, last_get,
                   sessionVars, triageVars, patchVars, dupVars, todoistVars>>

\* SBERTClient.__init__ in a new process: self.embedding_cache = self._load_cache()
Restart ==
    /\ save_pc = "down"
    /\ embedding_cache' = load_cache(cache_file)
    /\ save_pc' = "idle"
    /\ UNCHANGED <<cache_file, run, encode_count, prev_call, last_call, last_get,
                   sessionVars, triageVars, patchVars, dupVars, todoistVars>>

NextPersist ==
    \/ \E ts \in TextLists : BatchCompute(ts)
    \/ \E ok \in BOOLEAN : SaveOpen(ok)
    \/ \E ok \in BOOLEAN : SaveDump(ok)
    \/ Crash
    \/ Restart

SpecPersist == InitPersist /\ [][NextPersist]_vars

(* ------------- SBERTClient.check_duplicate_tasks on its own ------------ *)
\* longest list of new tasks, and of existing tasks
MaxTasks == 2

\* the threshold the client is made with (todoist/config.py), in percent
SBERT_SIMILARITY_THRESHOLD == 80

\* task texts: one text, the same in another case with a trailing blank, and
\* the same with a punctuation mark
DupTexts == {<<"a">>, <<"A", " ">>, <<"a", "!">>}

\* The loaded sentence model decides how similar two different texts are;
\* here each pair is just below the threshold or exactly at it.
Scores == {SBERT_SIMILARITY_THRESHOLD - 1, SBERT_SIMILARITY_THRESHOLD}
TextPairs == {p \in SUBSET DupTexts : Cardinality(p) = 2}
Models == [TextPairs -> Scores]

\* cosine of the vectors of two texts: 1.0 for the vectors of one text
Cosine(x, y, model) == IF x[1] = y[1] THEN 100 ELSE model[{x[1], y[1]}]

\* cosine_similarity(new_embeddings_array, existing_embeddings_array)
cosine_similarity(X, Y, model) ==
    [i \in 1..Len(X) |-> [j \in 1..Len(Y) |-> Cosine(X[i], Y[j], model)]]

\* np.max(similarity_matrix[i])
RECURSIVE RowMax(_)
RowMax(row) ==
    IF Len(row) = 1 THEN row[1]
    ELSE LET rest == RowMax(Tail(row))
         IN  IF row[1] >= rest THEN row[1] ELSE rest

IsDuplicate_StrictlyAbove(max_similarity, similarity_threshold) ==
    max_similarity > similarity_threshold

\* is_duplicate = max_similarity >= self.similarity_threshold
IsDuplicate(max_similarity, similarity_threshold) ==
    max_similarity >= similarity_threshold

\* the dict duplicate_results of the embedding loop, keyed by task text (the
\* entry of a text that is several times in new_tasks is written each time)
DuplicateResults(new_tasks, similarity_matrix, similarity_threshold) ==
    [t \in TextsOf(new_tasks) |->
        LET last == CHOOSE i \in 1..Len(new_tasks) :
                       /\ new_tasks[i] = t
                       /\ \A j \in (i + 1)..Len(new_tasks) : new_tasks[j] # t
        IN  IsDuplicate(RowMax(similarity_matrix[last]), similarity_threshold)]

Normalize_KeepsCase(text) == Strip(text)

\* the text compared by the simple check: new_task.lower().strip()
Normalize(text) == Strip(Lower(text))

\* _fallback_duplicate_check (and TodoistClient._simple_duplicate_check, the
\* same loops): a task is a duplicate iff some existing task is equal to it
\* after lower() and strip()
fallback_duplicate_check(new_tasks, existing_tasks) ==
    [t \in TextsOf(new_tasks) |->
        \E j \in 1..Len(existing_tasks) : Normalize(t) = Normalize(existing_tasks[j])]

\* get_embeddings_batch as a function of the cache: model.encode raises
\* (before anything is cached) or the vectors are cached and merged
get_embeddings_batch(texts, cache, call, encode_ok) ==
    LET uncached_texts == UncachedTexts(texts, cache)
        new_embeddings == encode(uncached_texts, call)
    IN  IF uncached_texts # <<>> /\ ~encode_ok
        THEN [raised |-> TRUE, encode_calls |-> 1, cache |-> cache, result |-> <<>>]
        ELSE [raised |-> FALSE,
              encode_calls |-> IF uncached_texts # <<>> THEN 1 ELSE 0,
              cache  |-> IF uncached_texts # <<>>
                         THEN CacheAfter(cache, uncached_texts, new_embeddings)
                         ELSE cache,
              result |-> MergeInOrder(texts,
                             CachedEmbeddings(texts, cache, uncached_texts, new_embeddings))]

EarlyReturn_OnlyWithoutExisting(new_tasks, existing_tasks) ==
    IF existing_tasks = <<>> THEN "no_existing" ELSE "compare"

\* the two tests before the try
EarlyReturn(new_tasks, existing_tasks) ==
    IF existing_tasks = <<>> THEN "no_existing"
    ELSE IF new_tasks = <<>> THEN "no_new"
    ELSE "compare"

\* check_duplicate_tasks(new_tasks, existing_tasks) of a client with the given
\* model, cache and threshold; `fails` names the step of the try block that
\* raises, if one does.  mode tells which return statement gave the result.
check_duplicate_tasks(new_tasks, existing_tasks, model, fails, cache, call, similarity_threshold) ==
    LET early == EarlyReturn(new_tasks, existing_tasks)
    IN
    IF early = "no_existing"
    THEN [returned |-> [t \in TextsOf(new_tasks) |-> FALSE], mode |-> "no_existing",
          cache |-> cache, encode_calls |-> 0]
    ELSE IF early = "no_new"
    THEN [returned |-> <<>>, mode |-> "no_new", cache |-> cache, encode_calls |-> 0]
    ELSE
    LET all_tasks == existing_tasks \o new_tasks
        batch     == get_embeddings_batch(all_tasks, cache, call, fails # "encode")
    IN  IF batch.raised \/ fails = "cosine_similarity"
        THEN [returned |-> fallback_duplicate_check(new_tasks, existing_tasks),
              mode |-> "fallback", cache |-> batch.cache, encode_calls |-> batch.encode_calls]
        ELSE LET existing_embeddings == SubSeq(batch.result, 1, Len(existing_tasks))
                 new_embeddings      == SubSeq(batch.result, Len(existing_tasks) + 1,
                                               Len(all_tasks))
                 similarity_matrix   == cosine_similarity(new_embeddings,
                                                          existing_embeddings, model)
             IN  [returned |-> DuplicateResults(new_tasks, similarity_matrix,
                                                similarity_threshold),
                  mode |-> "embedding", cache |-> batch.cache,
                  encode_calls |-> batch.encode_calls]

\* the two lists, the model, and the step of the try block that raises
DupInputs ==
    [new_tasks : SeqsUpTo(DupTexts, MaxTasks), existing_tasks : SeqsUpTo(DupTexts, MaxTasks),
     model : Models, fails : {"none", "encode", "cosine_similarity"}]

InitDup ==
    /\ dup_input \in DupInputs
    /\ dup_result = NoDup
    /\ embedding_cache \in CachesLoadedFor(DupTexts)
    /\ encode_count = 0
    /\ prev_call = NoCall
    /\ last_call = NoCall
    /\ last_get = NoGet
    /\ SessionIdle
    /\ TriageIdle
    /\ PatchIdle
    /\ TodoistIdle
    /\ PersistIdle

\* one call of SBERTClient.check_duplicate_tasks
CheckDuplicateTasks ==
    /\ ~dup_result.done
    /\ LET out == check_duplicate_tasks(dup_input.new_tasks, dup_input.existing_tasks,
                                        dup_input.model, dup_input.fails,
                                        embedding_cache, encode_count + 1,
                                        SBERT_SIMILARITY_THRESHOLD)
       IN  /\ dup_result' = [done |-> TRUE, returned |-> out.returned, mode |-> out.mode,
                             encode_calls |-> out.encode_calls]
           /\ embedding_cache' = out.cache
           /\ encode_count' = encode_count + out.encode_calls
    /\ UNCHANGED <<dup_input, prev_call, last_call, last_get,
                   sessionVars, triageVars, patchVars, todoistVars, persistVars>>

SpecDup == InitDup /\ [][CheckDuplicateTasks]_vars

(* ------------------ TodoistClient (todoist_client.py) ------------------ *)
\* check_duplicate_tasks(self, new_tasks, existing_tasks): the arguments the
\* method takes, and the arguments check_duplicates_intelligently passes
\* (new_tasks, existing_tasks, due_date)
CheckDuplicateTasksParams == 2
CheckDuplicateTasksArgs == 3

\* TodoistClient.__init__: SBERT is used if asked for and SBERTClient(...)
\* could be made; self.sbert_client is then a client with its sentence model,
\* else None
NewTodoistClient(use_sbert, sbert_init_ok) ==
    IF use_sbert /\ sbert_init_ok
    THEN [use_sbert |-> TRUE,
          sbert_client |-> [present |-> TRUE,
                            model |-> [p \in TextPairs |-> SBERT_SIMILARITY_THRESHOLD]]]
    ELSE [use_sbert |-> FALSE, sbert_client |-> [present |-> FALSE, model |-> <<>>]]

\* a task of the service: its content and the date of its due ("" if it
\* has no due)
Task(content, due) == [content |-> content, due |-> due]

ServiceTasks == << Task(<<"a">>, "2018-11-12"), Task(<<"a", "!", " ">>, ""), Task(<<>>, "") >>

\* what list(self.api.get_tasks()) is: the call raises, or it gives a list of
\* tasks, or a list of pages of tasks
Reply(shape, tasks, pages) == [shape |-> shape, tasks |-> tasks, pages |-> pages]

ServiceReplies ==
    { Reply("error", <<>>, <<>>),
      Reply("flat", <<>>, <<>>), Reply("flat", ServiceTasks, <<>>),
      Reply("pages", <<>>, <<>>), Reply("pages", <<>>, << <<>> >>),
      Reply("pages", <<>>, <<ServiceTasks>>),
      Reply("pages", <<>>, << <<ServiceTasks[1]>>, <<ServiceTasks[2]>> >>) }

\* the loop over the tasks of get_existing_tasks: the stripped content of the
\* tasks with content (and, in the second loop, due on due_date)
RECURSIVE ExistingFrom(_, _, _)
ExistingFrom(tasks, due_date, only_due) ==
    IF tasks = <<>> THEN <<>>
    ELSE LET task == Head(tasks)
             kept == /\ task.content # <<>>
                     /\ Strip(task.content) # <<>>
                     /\ only_due => task.due = due_date
         IN  (IF kept THEN <<Strip(task.content)>> ELSE <<>>)
             \o ExistingFrom(Tail(tasks), due_date, only_due)

\* get_existing_tasks(due_date)
get_existing_tasks(reply, due_date) ==
    IF reply.shape = "error" THEN <<>>
    ELSE IF reply.shape = "pages" /\ reply.pages # <<>>
         THEN ExistingFrom(reply.pages[1], due_date, FALSE)
         ELSE ExistingFrom(reply.tasks, due_date, TRUE)

\* _simple_duplicate_check
simple_duplicate_check(new_tasks, existing_tasks) ==
    [t \in TextsOf(new_tasks) |->
        \E j \in 1..Len(existing_tasks) : Normalize(t) = Normalize(existing_tasks[j])]

\* a call made on the Todoist API or on the SBERT client
ApiCall(call, content, priority, item, ok) ==
    [call |-> call, content |-> content, priority |-> priority, item |-> item, ok |-> ok]

\* check_duplicates_intelligently(new_tasks, due_date): the decisions, who
\* made them, the existing tasks they were made against and the calls made.
\* get_existing_tasks is always called without its argument ("today").
check_duplicates_intelligently(client, reply, new_tasks, due_date, cache, call) ==
    LET existing_tasks == get_existing_tasks(reply, "today")
    IN
    IF ~client.use_sbert \/ ~client.sbert_client.present
    THEN [returned |-> simple_duplicate_check(new_tasks, existing_tasks),
          mode |-> "simple", existing_tasks |-> existing_tasks,
          calls |-> <<ApiCall("get_tasks", <<>>, 0, 0, TRUE)>>]
    ELSE IF CheckDuplicateTasksArgs # CheckDuplicateTasksParams
    THEN \* the call raises TypeError; the except branch fetches and compares
         [returned |-> simple_duplicate_check(new_tasks, existing_tasks),
          mode |-> "simple", existing_tasks |-> existing_tasks,
          calls |-> <<ApiCall("get_tasks", <<>>, 0, 0, TRUE),
                      ApiCall("check_duplicate_tasks", <<>>, 0, 0, FALSE),
                      ApiCall("get_tasks", <<>>, 0, 0, TRUE)>>]
    ELSE [returned |-> check_duplicate_tasks(new_tasks, existing_tasks,
                           client.sbert_client.model, "none", cache, call,
                           SBERT_SIMILARITY_THRESHOLD).returned,
          mode |-> "sbert", existing_tasks |-> existing_tasks,
          calls |-> <<ApiCall("get_tasks", <<>>, 0, 0, TRUE),
                      ApiCall("check_duplicate_tasks", <<>>, 0, 0, TRUE)>>]

\* _parse_date_for_todoist: the date dateparser reads, else "today"
parse_date_for_todoist(date_string) ==
    IF date_string = "Monday, Nov 12, 2018" THEN "2018-11-12" ELSE "today"

\* the text taken from an element of prepare_priority / of to_do
TaskContent(section, task) ==
    IF ~IsDict(task) THEN task.str
    ELSE IF section = "prepare_priority" THEN GetText(task, "task")
    ELSE IF GetText(task, "task") # <<>> THEN GetText(task, "task")
    ELSE GetText(task, "item")

\* the elements of a section whose text is not blank, as (text, section, index)
RECURSIVE Collect(_, _, _)
Collect(section, tasks, idx) ==
    IF idx > Len(tasks) THEN <<>>
    ELSE LET task_content == TaskContent(section, tasks[idx])
         IN  (IF Strip(task_content) # <<>>
              THEN <<[content |-> task_content, section |-> section, index |-> idx]>>
              ELSE <<>>)
             \o Collect(section, tasks, idx + 1)

\* priority tasks first, then the to-do tasks
Collected(task_data) ==
    Collect("prepare_priority", task_data.prepare_priority, 1)
       \o Collect("to_do", task_data.to_do, 1)

\* task_metadata: a dict keyed by the task text, written in collection order
TaskMetadata(collected) ==
    [t \in {collected[i].content : i \in 1..Len(collected)} |->
        LET last == CHOOSE i \in 1..Len(collected) :
                       /\ collected[i].content = t
                       /\ \A j \in (i + 1)..Len(collected) : collected[j].content # t
        IN  [type |-> IF collected[last].section = "prepare_priority"
                      THEN "priority" ELSE "todo",
             priority |-> IF collected[last].section = "prepare_priority" THEN 1 ELSE 3]]

AfterExtract_StraightToCreation(new_tasks) ==
    IF new_tasks = <<>> THEN "done" ELSE "create"

\* where upload_tasks_from_ocr goes after collecting: it returns at once
\* when there is no task, else it checks for duplicates
AfterExtract(new_tasks) ==
    IF new_tasks = <<>> THEN "done" ELSE "check"

IsMarkedDuplicate_Never(duplicate_results, task_content) == FALSE

\* duplicate_results.get(task_content, False)
IsMarkedDuplicate(duplicate_results, task_content) ==
    task_content \in DOMAIN duplicate_results /\ duplicate_results[task_content]

\* the entries appended to tasks_created, each with the label of the priority.
\* A status is held as the pieces of its f-string: the literal words and the
\* characters of the text put between them.
\* "skipped - duplicate detected"
SkippedOutcome(task_content, metadata) ==
    [content |-> task_content,
     priority |-> IF metadata.priority = 1 THEN "High" ELSE "Normal",
     status |-> <<"skipped", " - duplicate detected">>]
\* f"failed - {e}", e being create_task's f"Failed to create task '{content}': {api error}"
FailedOutcome(task_content, metadata) ==
    [content |-> task_content,
     priority |-> IF metadata.priority = 1 THEN "High" ELSE "Normal",
     status |-> <<"failed", " - Failed to create task '">> \o task_content
                   \o <<"': ", "API Error">>]
\* what create_task returns
CreatedOutcome(task_content, metadata, id) ==
    [content |-> task_content,
     priority |-> IF metadata.priority = 1 THEN "High"
                  ELSE IF metadata.priority = 3 THEN "Normal" ELSE "Low",
     id |-> id]

NextItem_StopsAtFailure(next, n, failed) == IF failed THEN n + 1 ELSE next + 1

\* the for loop goes on to the following task, also after the except branch
NextItem(next, n, failed) == next + 1

\* the dict upload_tasks_from_ocr returns after the loop; each count is
\* len([t for t in tasks_created if ...])
UploadSummary(tasks_created) ==
    LET \* 'status' in t and word in t['status']: the word occurs in the status
        WithStatus(word) ==
            Cardinality({i \in 1..Len(tasks_created) :
                            /\ "status" \in DOMAIN tasks_created[i]
                            /\ \E k \in 1..Len(tasks_created[i].status) :
                                  tasks_created[i].status[k] = word})
    IN  [tasks_created |-> tasks_created,
         total_tasks   |-> Len(tasks_created),
         created_count |-> Cardinality({i \in 1..Len(tasks_created) :
                                          "id" \in DOMAIN tasks_created[i]}),
         skipped_count |-> WithStatus("skipped"),
         failed_count  |-> WithStatus("failed")]

\* the dict it returns when no task was collected
NoTasksSummary ==
    [tasks_created |-> <<>>, total_tasks |-> 0, created_count |-> 0, skipped_count |-> 0]

\* the elements of the two sections of the records uploaded: a priority task
\* and one with a blank text; a to-do item, a to-do given as a string and a
\* to-do whose text has the word "skipped" in it (held as one piece)
PriorityItems == { OcrItem(<<"A", " ">>, 95), OcrItem(<<" ">>, 95) }
ToDoItems == { [item |-> <<"a", "!">>, confidence |-> 95], [str |-> <<"A", " ">>],
               [item |-> <<"skipped">>, confidence |-> 95] }

UploadInputs ==
    [date : {"", "Monday, Nov 12, 2018"},
     prepare_priority : SeqsUpTo(PriorityItems, MaxTasks),
     to_do : SeqsUpTo(ToDoItems, MaxTasks)]

\* an upload_tasks_from_ocr(task_data) call at its first statement
StartUpload(task_data) ==
    [pc |-> "start", task_data |-> task_data, due_date |-> "today",
     collected |-> <<>>, new_tasks |-> <<>>, task_metadata |-> <<>>,
     duplicate_results |-> <<>>, dedup |-> "none", existing_tasks |-> <<>>,
     next |-> 1, tasks_created |-> <<>>, returned |-> <<>>]

InitUpload ==
    /\ todoist_client \in {NewTodoistClient(u, ok) : u, ok \in BOOLEAN}
    /\ todoist_service \in ServiceReplies
    /\ upload \in {StartUpload(td) : td \in UploadInputs}
    /\ api_calls = <<>>
    /\ SessionIdle
    /\ TriageIdle
    /\ PatchIdle
    /\ CacheIdle
    /\ DupIdle
    /\ PersistIdle

\* upload_tasks_from_ocr up to the test of new_tasks: due date, new_tasks and
\* task_metadata
UploadExtract ==
    /\ upload.pc = "start"
    /\ LET collected == Collected(upload.task_data)
           new_tasks == [i \in 1..Len(collected) |-> collected[i].content]
           after     == AfterExtract(new_tasks)
       IN  upload' = [upload EXCEPT
                        !.pc = after,
                        !.due_date = IF upload.task_data.date # ""
                                     THEN parse_date_for_todoist(upload.task_data.date)
                                     ELSE "today",
                        !.collected = collected,
                        !.new_tasks = new_tasks,
                        !.task_metadata = TaskMetadata(collected),
                        !.returned = IF after = "done" THEN NoTasksSummary ELSE <<>>]
    /\ UNCHANGED <<todoist_client, todoist_service, api_calls,
                   sessionVars, triageVars, patchVars, cacheVars, dupVars, persistVars>>

\* duplicate_results = self.check_duplicates_intelligently(new_tasks, due_date)
UploadCheckDuplicates ==
    /\ upload.pc = "check"
    /\ LET out == check_duplicates_intelligently(todoist_client, todoist_service,
                       upload.new_tasks, upload.due_date, embedding_cache, encode_count + 1)
       IN  /\ upload' = [upload EXCEPT
                           !.pc = "create",
                           !.duplicate_results = out.returned,
                           !.dedup = out.mode,
                           !.existing_tasks = out.existing_tasks]
           \* the last entry marks the return of the check, with the texts it was given
           /\ api_calls' = api_calls \o out.calls
                              \o <<ApiCall("duplicates_checked", upload.new_tasks, 0, 0, TRUE)>>
    /\ UNCHANGED <<todoist_client, todoist_service,
                   sessionVars, triageVars, patchVars, cacheVars, dupVars, persistVars>>

\* one round of the loop over new_tasks: skip a duplicate, else create the
\* task (api.add_task answers or raises)
UploadItem(create_ok) ==
    /\ upload.pc = "create"
    /\ upload.next <= Len(upload.new_tasks)
    /\ LET task_content == upload.new_tasks[upload.next]
           metadata     == upload.task_metadata[task_content]
           is_duplicate == IsMarkedDuplicate(upload.duplicate_results, task_content)
           add_task     == ApiCall("add_task", task_content, metadata.priority,
                                    upload.next, create_ok)
           outcome      == IF is_duplicate THEN SkippedOutcome(task_content, metadata)
                           ELSE IF create_ok
                           THEN CreatedOutcome(task_content, metadata, Len(api_calls) + 1)
                           ELSE FailedOutcome(task_content, metadata)
       IN  /\ upload' = [upload EXCEPT
                           !.tasks_created = Append(upload.tasks_created, outcome),
                           !.next = NextItem(upload.next, Len(upload.new_tasks),
                                             ~is_duplicate /\ ~create_ok)]
           /\ api_calls' = IF is_duplicate THEN api_calls ELSE Append(api_calls, add_task)
    /\ UNCHANGED <<todoist_client, todoist_service,
                   sessionVars, triageVars, patchVars, cacheVars, dupVars, persistVars>>

\* after the loop: the counts and the returned dict
UploadReturn ==
    /\ upload.pc = "create"
    /\ upload.next > Len(upload.new_tasks)
    /\ upload' = [upload EXCEPT !.pc = "done",
                                !.returned = UploadSummary(upload.tasks_created)]
    /\ UNCHANGED <<todoist_client, todoist_service, api_calls,
                   sessionVars, triageVars, patchVars, cacheVars, dupVars, persistVars>>

NextUpload ==
    \/ UploadExtract
    \/ UploadCheckDuplicates
    \/ \E create_ok \in BOOLEAN : UploadItem(create_ok)
    \/ UploadReturn

SpecUpload == InitUpload /\ [][NextUpload]_vars

(* ------------------------------ claims --------------------------------- *)
\* an entry of reviewed_items that the user changed / left as it was
IsEdited(rs, i)   == rs.reviewed_items[i].text # rs.items[i].text
IsAccepted(rs, i) == rs.reviewed_items[i] = rs.items[i]

\* C1: a review started with N >= 1 items is Completed exactly when N
\* submissions have been accepted, and the completing submission reports
\* reviewed_items_count = N, whatever mix of matching and edited texts the
\* submissions carried.
C1_CompletesAfterNSubmits ==
    /\ (review.present /\ submits = Len(review.items))
          => (~review.active /\ Len(review.reviewed_items) = Len(review.items))
    /\ (review.present /\ submits < Len(review.items)) => review.active
    /\ result.kind = "review_complete"
          => /\ review.present /\ ~review.active
             /\ submits = Len(review.items)
             /\ result.count = Len(review.items)

C1_Witness ==
    /\ result.kind = "review_complete"
    /\ result.count >= 2
    /\ \E i \in 1..Len(review.reviewed_items) : IsEdited(review, i)
    /\ \E i \in 1..Len(review.reviewed_items) : IsAccepted(review, i)

\* C2: in every reachable review state 0 <= current_index <= len(items).
C2_CursorInRange ==
    /\ 0 <= review.current_index
    /\ review.current_index <= Len(review.items)

C2_Witness ==
    /\ review.present
    /\ Len(review.items) >= 2
    /\ review.current_index = Len(review.items)

C4_ActiveUntilLastItem ==
    /\ [](review.present => (review.active <=> review.current_index < Len(review.items)))
    /\ [][(~review.active /\ review'.active)
             => (review'.current_index = 0 /\ review'.reviewed_items = <<>>
                 /\ result'.kind = "start_prefill_editing")]_vars

C4_Witness ==
    /\ review.present /\ ~review.active
    /\ Len(review.items) >= 2
    /\ review.current_index = Len(review.items)
    /\ result.kind = "review_complete"

\* C5: every entry of reviewed_items has confidence 1.0, whether the
\* submitted text matched the original (accepted as-is) or differed (edited).
C5_ReviewedConfidenceIsOne ==
    \A i \in 1..Len(review.reviewed_items) :
        review.reviewed_items[i].confidence = HumanConfidence

\* C6: a start issued while a review is Active is rejected and leaves the
\* review's items, cursor and reviewed list as they were.
C6_StartWhileActiveRejected ==
    [][(review.active /\ StartReviewFromSession)
          => (review' = review /\ result'.kind # "start_prefill_editing")]_vars

C8_StartNeedsItems ==
    /\ [](review.active => review.items # <<>>)
    /\ [][StartReviewFromSession
            => /\ pending.items = <<>>
                     => (review' = review /\ result'.kind # "start_prefill_editing")
               /\ result'.kind = "start_prefill_editing"
                     => /\ pending.items # <<>>
                        /\ review'.items = pending.items
                        /\ review'.current_index = 0
                        /\ review'.reviewed_items = <<>>
                        /\ review'.active]_vars

C8_Witness ==
    /\ result.kind = "start_prefill_editing"
    /\ review.active
    /\ review.current_index = 0
    /\ Len(review.items) >= 2

\* C9: cancel leaves no review state at any cursor position (Inactive, the
\* partial reviewed list gone); an upload that finds no review state patches
\* nothing (it hands over the stored final data or the task data as given),
\* and a start that follows begins at current_index 0 with reviewed_items = [].
C9_CancelDiscardsReviewed ==
    [][/\ CancelReview
            => (~review'.present /\ ~review'.active /\ review'.reviewed_items = <<>>)
       /\ (~review.present
              /\ \E td \in TaskDataInputs, j \in BOOLEAN, ok \in BOOLEAN :
                    UploadToTodoist(td, j, ok))
            => /\ final_ocr_data' = final_ocr_data
               /\ ~review'.present
               /\ uploaded' # uploaded
                     => uploaded'.data \in (TaskDataInputs \cup {final_ocr_data.data})
       /\ (~review.present /\ review'.present /\ StartReviewFromSession)
            => (review'.current_index = 0 /\ review'.reviewed_items = <<>>)]_vars

C9_Witness ==
    /\ discarded >= 1
    /\ ~review.present
    /\ result.op = "upload" /\ result.kind = "uploaded"
    /\ uploaded.present

\* the address a flagged or reviewed item is patched back by
Address(item) == <<item.section, item.item_index, item.field_name>>

\* C10: when submit requests for one session overlap, no flagged item is
\* reviewed twice and none is skipped: reviewed_items never holds two entries
\* for one address, and a finished review holds an entry for every item.
C10_NoItemTwiceOrSkipped ==
    /\ \A i, j \in 1..Len(review.reviewed_items) :
          i # j => Address(review.reviewed_items[i]) # Address(review.reviewed_items[j])
    /\ (review.present /\ ~review.active)
          => \A k \in 1..Len(review.items) :
                \E i \in 1..Len(review.reviewed_items) :
                    Address(review.reviewed_items[i]) = Address(review.items[k])

(* ------------------- claims about the patch function ------------------- *)
\* a (section, index) the record resolves: the section is there, is a list,
\* the index lies in 0..len-1 and the element there is an item object
ValidAddress(data, review_item) ==
    /\ review_item.section \in DOMAIN data
    /\ data[review_item.section].shape = "list"
    /\ review_item.item_index >= 0
    /\ review_item.item_index < Len(data[review_item.section].items)
    /\ "str" \notin DOMAIN data[review_item.section].items[review_item.item_index + 1]

\* the element of a record at the address of a reviewed entry
ItemAt(data, review_item) ==
    data[review_item.section].items[review_item.item_index + 1]

\* entry i is the last entry of the list with a valid address for its slot
LastForAddress(data, reviewed, i) ==
    /\ ValidAddress(data, reviewed[i])
    /\ \A j \in (i + 1)..Len(reviewed) :
          ValidAddress(data, reviewed[j])
             => <<reviewed[j].section, reviewed[j].item_index>>
                   # <<reviewed[i].section, reviewed[i].item_index>>

\* C11: the patch function never changes the record it is given, for valid
\* and invalid addresses alike, and the record it returns is not the given
\* one (shares nothing with it).
C11_InputNeverShared ==
    patch_result.done
       => /\ patch_input = patch_result.input_before
          /\ ~patch_result.same_object

\* C12: one entry with an invalid address never aborts the patch: every
\* other entry with a valid address is applied to the returned record.
C12_BadAddressNeverAborts ==
    (patch_result.done
       /\ \E k \in 1..Len(patch_reviewed) : ~ValidAddress(patch_input, patch_reviewed[k]))
       => \A i \in 1..Len(patch_reviewed) :
             LastForAddress(patch_input, patch_reviewed, i)
                => ItemAt(patch_result.data, patch_reviewed[i]).task
                      = patch_reviewed[i].text

\* C13: an entry whose address is invalid (section missing or not a list,
\* index outside 0..len-1, negative ones included) changes nothing: a patch
\* whose entries all have invalid addresses returns a record equal to the
\* original.  (The claim also has every such entry reported back as an
\* address error; the function returns the record only.)
C13_InvalidAddressChangesNothing ==
    (patch_result.done
       /\ \A k \in 1..Len(patch_reviewed) : ~ValidAddress(patch_input, patch_reviewed[k]))
       => patch_result.data = patch_input

\* C14: after the patch, the item at the address of every reviewed entry
\* carries the reviewed text in the addressed field and confidence 1.0,
\* whether the entry was edited or accepted as it was during the review.
C14_PatchedConfidenceIsOne ==
    [][((\E td \in TaskDataInputs, j \in BOOLEAN, ok \in BOOLEAN :
            UploadToTodoist(td, j, ok))
        /\ review.present /\ ~review.active /\ review.reviewed_items # <<>>)
          => \A i \in 1..Len(review.reviewed_items) :
                LET entry == review.reviewed_items[i]
                    item  == ItemAt(final_ocr_data'.data, entry)
                IN  /\ final_ocr_data'.present
                    /\ item[entry.field_name] = entry.text
                    /\ item.confidence = HumanConfidence]_vars

(* --------------------- claims about the triage ------------------------- *)
\* C15: every flagged item comes from a list section, has a non-empty text
\* taken from its element and a confidence that is present and below the
\* threshold; nothing is flagged from an element at or above the threshold
\* or without confidence, nor from a section that is a single object.
C15_FlaggedAreLowConfidence ==
    (triage_result.done /\ ~triage_result.raised)
       => \A k \in 1..Len(triage_result.items) :
             LET f == triage_result.items[k]
             IN  /\ f.section \in SectionSet
                 /\ triage_input[f.section].shape = "list"
                 /\ f.item_index \in 0..(Len(triage_input[f.section].items) - 1)
                 /\ LET el == triage_input[f.section].items[f.item_index + 1]
                    IN  /\ "str" \notin DOMAIN el
                        /\ f.text # <<>>
                        /\ \E key \in {"task", "item", "value", "text"} :
                              key \in DOMAIN el /\ f.text = el[key]
                        /\ "confidence" \in DOMAIN el
                        /\ f.confidence = el.confidence
                        /\ el.confidence < TASK_CONFIDENCE_THRESHOLD

C15_Witness ==
    /\ triage_result.done /\ ~triage_result.raised
    /\ Len(triage_result.items) >= 2
    /\ triage_input["date"].object.confidence < TASK_CONFIDENCE_THRESHOLD
    /\ \E i \in 1..Len(triage_input["to_do"].items) :
          \/ triage_input["to_do"].items[i] = [task |-> <<"a">>]
          \/ triage_input["to_do"].items[i] = [task |-> <<"a">>,
                                               confidence |-> TASK_CONFIDENCE_THRESHOLD]

\* the first of task, item, value, text that holds a non-empty text
TextFieldOrder == <<"task", "item", "value", "text">>
HasText(el, k) == TextFieldOrder[k] \in DOMAIN el /\ el[TextFieldOrder[k]] # <<>>
FirstTextField(el) ==
    IF \E k \in 1..4 : HasText(el, k)
    THEN TextFieldOrder[CHOOSE k \in 1..4 :
                           HasText(el, k) /\ \A j \in 1..(k - 1) : ~HasText(el, j)]
    ELSE ""

\* C16: the triage is complete: every item object of every list section
\* with a non-empty text and a confidence present and below the threshold
\* (0 included) is flagged exactly once, with the field its text was found
\* in and the whole original item.
C16_EveryLowItemFlaggedOnce ==
    (triage_result.done /\ ~triage_result.raised)
       => \A s \in SectionSet :
             triage_input[s].shape = "list"
                => \A i \in 1..Len(triage_input[s].items) :
                      LET el == triage_input[s].items[i]
                      IN  (/\ "str" \notin DOMAIN el
                           /\ FirstTextField(el) # ""
                           /\ "confidence" \in DOMAIN el
                           /\ el.confidence >= 0
                           /\ el.confidence < TASK_CONFIDENCE_THRESHOLD)
                             => /\ Cardinality({k \in 1..Len(triage_result.items) :
                                       /\ triage_result.items[k].section = s
                                       /\ triage_result.items[k].item_index = i - 1}) = 1
                                /\ \E k \in 1..Len(triage_result.items) :
                                       /\ triage_result.items[k].section = s
                                       /\ triage_result.items[k].item_index = i - 1
                                       /\ triage_result.items[k].field_name = FirstTextField(el)
                                       /\ triage_result.items[k].original_item = el

\* C17: given a record with a list section that holds an element that is
\* not an item object, the triage fails with an error and returns nothing,
\* never a list of the items it could flag.
C17_MalformedRecordRejected ==
    (triage_result.done
       /\ \E s \in SectionSet :
             /\ triage_input[s].shape = "list"
             /\ \E i \in 1..Len(triage_input[s].items) :
                   "str" \in DOMAIN triage_input[s].items[i])
       => (triage_result.raised /\ triage_result.items = <<>>)

C19_EncodeGetsDistinctUncached ==
    last_call.done
       => /\ Len(last_call.encode_args) <= 1
          /\ \A c \in 1..Len(last_call.encode_args) :
                LET args == last_call.encode_args[c]
                IN  /\ TextsOf(args) = TextsOf(last_call.texts) \ last_call.cached_before
                    /\ \A i, j \in 1..Len(args) : i # j => args[i] # args[j]

\* C20: the result of get_embeddings_batch has the length of the input and
\* its i-th vector is the vector of the i-th text, for inputs that mix
\* cached and uncached texts and repeat texts.
C20_ResultInInputOrder ==
    last_call.done
       => /\ Len(last_call.result) = Len(last_call.texts)
          /\ \A i \in 1..Len(last_call.texts) :
                /\ last_call.result[i][1] = last_call.texts[i]
                /\ last_call.result[i] = embedding_cache[<<"md5", last_call.texts[i]>>]

C20_Witness ==
    /\ last_call.done
    /\ Len(last_call.texts) >= 3
    /\ last_call.texts[1] = last_call.texts[3]
    /\ last_call.texts[1] # last_call.texts[2]
    /\ last_call.texts[1] \in last_call.cached_before
    /\ last_call.texts[2] \notin last_call.cached_before


\* C21: the cache key is the hash of the trimmed, lower-cased text: once an
\* entry exists for a text, get_embedding on a text that is equal to it
\* after trim and lowercase makes no model.encode call and returns the
\* vector of that entry.
C21_NormalizedTextsShareEntry ==
    [][\A t, u \in KeyTexts :
          ( /\ Normalize(t) = Normalize(u)
            /\ get_text_hash(u) \in DOMAIN embedding_cache
            /\ GetEmbedding(t) )
             => /\ encode_count' = encode_count
                /\ last_get'.result = embedding_cache[get_text_hash(u)]]_vars


(* ------------------- claims about the duplicate check ------------------ *)
\* C22: check_duplicate_tasks with no new tasks returns the empty map
\* whatever the existing tasks are, and with no existing tasks it marks
\* every new task as not a duplicate; in both cases model.encode is not
\* called.
C22_EmptySidesNeedNoEmbedding ==
    dup_result.done
       => /\ dup_input.new_tasks = <<>>
                => /\ DOMAIN dup_result.returned = {}
                   /\ dup_result.encode_calls = 0
                   /\ encode_count = 0
          /\ dup_input.existing_tasks = <<>>
                => /\ DOMAIN dup_result.returned = TextsOf(dup_input.new_tasks)
                   /\ \A t \in TextsOf(dup_input.new_tasks) : dup_result.returned[t] = FALSE
                   /\ dup_result.encode_calls = 0
                   /\ encode_count = 0

C22_Witness ==
    /\ dup_result.done
    /\ dup_input.new_tasks = <<>>
    /\ Len(dup_input.existing_tasks) = 2
    /\ embedding_cache = <<>>
    /\ dup_input.fails = "none"

\* the similarity of a new task and an existing task under the model of the call
ScoreOf(u, v) == IF u = v THEN 100 ELSE dup_input.model[{u, v}]

\* some existing task is at least as similar to t as the threshold asks
ReachesThreshold(t) ==
    \E j \in 1..Len(dup_input.existing_tasks) :
        ScoreOf(t, dup_input.existing_tasks[j]) >= SBERT_SIMILARITY_THRESHOLD

\* C23: when the decisions come from the embeddings, a new task is marked
\* duplicate if and only if its greatest similarity to an existing task is at
\* least the threshold; a greatest similarity equal to the threshold is a
\* duplicate.
C23_DuplicateIffBestScoreReachesThreshold ==
    (dup_result.done /\ dup_result.mode = "embedding")
       => /\ DOMAIN dup_result.returned = TextsOf(dup_input.new_tasks)
          /\ \A t \in TextsOf(dup_input.new_tasks) :
                dup_result.returned[t] <=> ReachesThreshold(t)

C23_Witness ==
    /\ dup_result.done /\ dup_result.mode = "embedding"
    /\ Len(dup_input.new_tasks) = 2
    /\ Len(dup_input.existing_tasks) = 2
    /\ LET t == dup_input.new_tasks[1]
            u == dup_input.new_tasks[2]
       IN  /\ \A j \in 1..2 : ScoreOf(t, dup_input.existing_tasks[j]) <= SBERT_SIMILARITY_THRESHOLD
           /\ \E j \in 1..2 : ScoreOf(t, dup_input.existing_tasks[j]) = SBERT_SIMILARITY_THRESHOLD
           /\ dup_result.returned[t]
           /\ \A j \in 1..2 : ScoreOf(u, dup_input.existing_tasks[j]) < SBERT_SIMILARITY_THRESHOLD
           /\ ~dup_result.returned[u]

\* the step of the try block named by the input was reached and raised
EmbeddingFailed ==
    /\ dup_input.new_tasks # <<>> /\ dup_input.existing_tasks # <<>>
    /\ \/ dup_input.fails = "cosine_similarity"
       \/ dup_input.fails = "encode" /\ dup_result.encode_calls = 1

\* C24: when a step of the embedding computation raises, the call still
\* returns, with a decision for every new task, and a new task is a
\* duplicate if and only if its trimmed, lower-cased text equals the trimmed,
\* lower-cased text of an existing task.
C24_FallbackIsStrictEquality ==
    dup_result.done
       => /\ EmbeddingFailed => dup_result.mode = "fallback"
          /\ dup_result.mode = "fallback"
                => /\ DOMAIN dup_result.returned = TextsOf(dup_input.new_tasks)
                   /\ \A t \in TextsOf(dup_input.new_tasks) :
                         dup_result.returned[t]
                            <=> \E j \in 1..Len(dup_input.existing_tasks) :
                                   Strip(Lower(t)) = Strip(Lower(dup_input.existing_tasks[j]))

C24_Witness ==
    /\ dup_result.done /\ dup_result.mode = "fallback"
    /\ dup_input.fails = "encode"
    /\ dup_input.existing_tasks = << <<"a">> >>
    /\ dup_input.new_tasks = << <<"A", " ">>, <<"a", "!">> >>
    /\ dup_result.returned[<<"A", " ">>]
    /\ ~dup_result.returned[<<"a", "!">>]

\* C25: a result that the fallback produced can be told from the result the
\* embeddings give for the same tasks: what the caller receives differs.
C25_DegradedResultIsFlagged ==
    (dup_result.done /\ dup_result.mode = "fallback")
       => dup_result.returned #
             check_duplicate_tasks(dup_input.new_tasks, dup_input.existing_tasks,
                                   dup_input.model, "none", embedding_cache,
                                   encode_count + 1, SBERT_SIMILARITY_THRESHOLD).returned


(* ----------------------- claims about the upload ----------------------- *)
\* the positions in api_calls of the calls of one kind
CallsOf(call) == {i \in 1..Len(api_calls) : api_calls[i].call = call}

\* the SBERT client was made and is in use
SbertEnabled == todoist_client.use_sbert /\ todoist_client.sbert_client.present

C27_DuplicatesCheckedBeforeCreation ==
    /\ Cardinality(CallsOf("duplicates_checked")) <= 1
    /\ \A m \in CallsOf("duplicates_checked") : api_calls[m].content = upload.new_tasks
    /\ \A a \in CallsOf("add_task") : \E m \in CallsOf("duplicates_checked") : m < a
    /\ (upload.pc = "done" /\ upload.new_tasks # <<>>)
          => Cardinality(CallsOf("duplicates_checked")) = 1

C27_Witness ==
    /\ upload.pc = "done"
    /\ Cardinality(CallsOf("add_task")) >= 2
    /\ Cardinality(CallsOf("get_tasks")) = 2
    /\ \E i \in 1..Len(upload.tasks_created) : "id" \notin DOMAIN upload.tasks_created[i]

\* the texts of all elements of the two sections, in input order
InputTexts(task_data) ==
    [i \in 1..Len(task_data.prepare_priority) |->
        TaskContent("prepare_priority", task_data.prepare_priority[i])]
    \o [i \in 1..Len(task_data.to_do) |-> TaskContent("to_do", task_data.to_do[i])]

\* those that are not blank
NonBlankTexts(task_data) ==
    SelectSeq(InputTexts(task_data), LAMBDA t : Strip(t) # <<>>)

\* the add_task calls made for the i-th collected task
AddTaskCalls(i) == {k \in CallsOf("add_task") : api_calls[k].item = i}

\* C28 as stated: the returned outcomes are one per element of the input, in
\* input order.
C28_OneOutcomePerInputItem ==
    upload.pc = "done"
       => /\ Len(upload.returned.tasks_created) = Len(InputTexts(upload.task_data))
          /\ \A i \in 1..Len(upload.returned.tasks_created) :
                upload.returned.tasks_created[i].content = InputTexts(upload.task_data)[i]

\* C28, amended: the returned outcomes are one per input element with a
\* non-blank text, in input order; the outcome of an element is failed
\* exactly if its own add_task call failed, created exactly if its own call
\* succeeded, and skipped exactly if no call was made for it, whatever
\* happened to the elements before it.
C28_OneOutcomePerNonBlankItem ==
    upload.pc = "done"
       => LET outcomes == upload.returned.tasks_created
              texts    == NonBlankTexts(upload.task_data)
          IN  /\ Len(outcomes) = Len(texts)
              /\ \A i \in 1..Len(outcomes) :
                    /\ outcomes[i].content = texts[i]
                    /\ "id" \in DOMAIN outcomes[i]
                          <=> \E k \in AddTaskCalls(i) : api_calls[k].ok
                    /\ ("status" \in DOMAIN outcomes[i] /\ Head(outcomes[i].status) = "failed")
                          <=> \E k \in AddTaskCalls(i) : ~api_calls[k].ok
                    /\ ("status" \in DOMAIN outcomes[i] /\ Head(outcomes[i].status) = "skipped")
                          <=> AddTaskCalls(i) = {}

C28_Witness ==
    /\ upload.pc = "done"
    /\ Len(upload.returned.tasks_created) = 3
    /\ Len(InputTexts(upload.task_data)) = 3
    /\ "id" \in DOMAIN upload.returned.tasks_created[1]
    /\ "status" \in DOMAIN upload.returned.tasks_created[2]
    /\ Head(upload.returned.tasks_created[2].status) = "failed"
    /\ "id" \in DOMAIN upload.returned.tasks_created[3]

\* C29: a task marked duplicate gets the outcome skipped and no add_task
\* call; add_task is called at most once for a task, and only for tasks not
\* marked duplicate.
C29_DuplicatesAreNeverCreated ==
    /\ \A k \in CallsOf("add_task") : api_calls[k].item \in 1..Len(upload.tasks_created)
    /\ \A i \in 1..Len(upload.tasks_created) :
          LET t      == upload.new_tasks[i]
              marked == t \in DOMAIN upload.duplicate_results /\ upload.duplicate_results[t]
          IN  /\ marked => /\ "status" \in DOMAIN upload.tasks_created[i]
                           /\ Head(upload.tasks_created[i].status) = "skipped"
                           /\ AddTaskCalls(i) = {}
              /\ Cardinality(AddTaskCalls(i)) <= 1
              /\ ~marked => Cardinality(AddTaskCalls(i)) = 1
              /\ \A k \in AddTaskCalls(i) : api_calls[k].content = t

C29_Witness ==
    /\ upload.pc = "done"
    /\ Len(upload.tasks_created) >= 3
    /\ \E i, j \in 1..Len(upload.tasks_created) :
          /\ upload.duplicate_results[upload.new_tasks[i]]
          /\ AddTaskCalls(i) = {}
          /\ ~upload.duplicate_results[upload.new_tasks[j]]
          /\ \E k \in AddTaskCalls(j) : ~api_calls[k].ok

\* all tasks the service answered with, in its order
RECURSIVE Flatten(_)
Flatten(pages) == IF pages = <<>> THEN <<>> ELSE Head(pages) \o Flatten(Tail(pages))
AnsweredTasks(reply) ==
    IF reply.shape = "pages" THEN Flatten(reply.pages) ELSE reply.tasks

\* the trimmed content of the tasks that have content
TrimmedContents(tasks) ==
    LET contents == [i \in 1..Len(tasks) |-> Strip(tasks[i].content)]
    IN  SelectSeq(contents, LAMBDA c : c # <<>>)

\* C30: the existing tasks the duplicates are checked against are the
\* trimmed contents of all tasks of the service that have content, in the
\* order of the service.
C30_ExistingTasksAreAllContents ==
    upload.dedup # "none"
       => upload.existing_tasks = TrimmedContents(AnsweredTasks(todoist_service))

(* ------------------ claims about the page-to-upload flow --------------- *)
\* C31: when a page is processed successfully and items are flagged, the
\* flagged items and their record are stored as the pending review, with
\* has_items true.
C31_FlaggedItemsStoredAsPending ==
    [][ \A r \in PageRecords :
          ( /\ result'.op = "process_image"
            /\ result'.kind = "formatted"
            /\ detect_low_confidence_items(r) # <<>>
            /\ ProcessJournalImage("formatted", r) )
          => pending' = PendingReviewFor(detect_low_confidence_items(r), r) ]_vars

\* the place of a section in the record's order
SectionOrder(sec) == CHOOSE k \in 1..Len(Sections) : Sections[k] = sec

\* (section order, item index) of x lies before that of y
ComesBefore(x, y) ==
    \/ SectionOrder(x.section) < SectionOrder(y.section)
    \/ x.section = y.section /\ x.item_index < y.item_index

\* the low-confidence item objects of a record, as addresses
LowAddresses(data) ==
    { a \in [section : SectionSet, item_index : 0..MaxItems] :
        /\ IsList(data[a.section])
        /\ a.item_index < Len(data[a.section].items)
        /\ IsDict(data[a.section].items[a.item_index + 1])
        /\ IsLowConfidence(data[a.section].items[a.item_index + 1]) }

\* C32: the flagged items a review runs over are in (section order, item
\* index) order; the item offered by start is the first low-confidence item
\* of the record in that order, and each submit offers the next one.
C32_ReviewWalksInFlagOrder ==
    /\ \A i, j \in 1..Len(review.items) :
          i < j => ComesBefore(review.items[i], review.items[j])
    /\ result.kind = "start_prefill_editing"
          => /\ result.item = Prefill(review.items[1], 1)
             /\ \A a \in LowAddresses(review.ocr_data) : ~ComesBefore(a, review.items[1])
    /\ result.kind = "next_prefill_item"
          => result.item = Prefill(review.items[review.current_index + 1],
                                   review.current_index + 1)

C32_Witness ==
    /\ result.kind = "next_prefill_item"
    /\ Len(review.items) >= 3
    /\ review.items[1].section # review.items[2].section
    /\ review.items[2].section = review.items[3].section
    /\ review.current_index = 1

\* some entry of the reviewed list has a valid address and names element i
\* (counted from 1) of section sec
Addressed(data, reviewed, sec, i) ==
    \E k \in 1..Len(reviewed) :
        /\ ValidAddress(data, reviewed[k])
        /\ reviewed[k].section = sec
        /\ reviewed[k].item_index = i - 1

\* the fields the entries with that address may write
AddressedFields(data, reviewed, sec, i) ==
    {"confidence"} \cup
    { reviewed[k].field_name :
        k \in { n \in 1..Len(reviewed) : /\ ValidAddress(data, reviewed[n])
                                         /\ reviewed[n].section = sec
                                         /\ reviewed[n].item_index = i - 1 } }

\* C33: the patch changes only what is addressed: an item that is not at the
\* (section, index) of an entry with a valid address equals the item of
\* the original, and in an addressed item every field other than the
\* addressed text field and confidence is unchanged.
C33_OnlyAddressedItemsChange ==
    patch_result.done =>
       /\ DOMAIN patch_result.data = DOMAIN patch_input
       /\ \A sec \in DOMAIN patch_input :
            IF ~IsList(patch_input[sec])
            THEN patch_result.data[sec] = patch_input[sec]
            ELSE /\ IsList(patch_result.data[sec])
                 /\ Len(patch_result.data[sec].items) = Len(patch_input[sec].items)
                 /\ \A i \in 1..Len(patch_input[sec].items) :
                      LET before == patch_input[sec].items[i]
                          after  == patch_result.data[sec].items[i]
                          fields == AddressedFields(patch_input, patch_reviewed, sec, i)
                      IN  IF ~Addressed(patch_input, patch_reviewed, sec, i)
                          THEN after = before
                          ELSE /\ DOMAIN after \subseteq DOMAIN before \cup fields
                               /\ \A key \in DOMAIN before \ fields :
                                     key \in DOMAIN after /\ after[key] = before[key]

(* -------------------- claims about the cache file ---------------------- *)
\* what a cache holds, by value: the encoder gives a text the same vector in
\* every call, so a stored vector is known by its text
Values(cache) == [h \in DOMAIN cache |-> cache[h][1]]

\* the entries the crash took away: held in memory, not in the file
LostEntries == DOMAIN run.expected \ DOMAIN run.store_before

\* C34: after a crash between computing new embeddings and saving them,
\* every entry the file held before the call is loaded again by the restarted
\* process, and once the lost entries (and nothing else) have been asked
\* for again the cache holds what the uninterrupted process held.
C34_CrashLosesOnlyUnsavedEntries ==
    (run.crash_point = "computed" /\ save_pc # "down")
       => /\ \A h \in DOMAIN run.store_before :
                /\ h \in DOMAIN embedding_cache
                /\ embedding_cache[h] = run.store_before[h]
          /\ (save_pc = "idle" /\ run.requested = LostEntries)
                => Values(embedding_cache) = Values(run.expected)

C34_Witness ==
    /\ run.crash_point = "computed"
    /\ save_pc = "idle"
    /\ run.store_before # <<>>
    /\ LostEntries # {}
    /\ run.requested = LostEntries
    /\ cache_file.state = "intact"
    /\ embedding_cache # run.expected

\* a review that is Completed: not active, with reviewed entries
Completed(rs) == rs.present /\ ~rs.active /\ rs.reviewed_items # <<>>

\* C35: an upload patches reviewed items into the record only from a
\* Completed review, and then clears the review state.  Without a Completed
\* review (an Active one included) it leaves the review state and the stored
\* record untouched and hands over the unpatched data; after an upload that
\* patched there is no Completed review left to apply again.
C35_UploadPatchesOnlyCompletedReview ==
    [][ result'.op = "upload" =>
          /\ (review' # review \/ final_ocr_data' # final_ocr_data)
                => /\ Completed(review)
                   /\ review' = NoReview
                   /\ final_ocr_data' =
                         [present |-> TRUE,
                          data |-> apply_reviewed_items_to_ocr_data(review.ocr_data,
                                                                    review.reviewed_items)]
          /\ ~Completed(review)
                => /\ review' = review
                   /\ final_ocr_data' = final_ocr_data
                   /\ result'.kind = "uploaded"
                         => /\ uploaded'.present
                            /\ IF final_ocr_data.present
                               THEN uploaded'.data = final_ocr_data.data
                               ELSE uploaded'.data \in TaskDataInputs
          /\ (Completed(review) /\ result'.kind = "uploaded")
                => /\ ~Completed(review')
                   /\ uploaded' = final_ocr_data' ]_vars

C35_Witness ==
    /\ result.op = "upload"
    /\ result.kind = "uploaded"
    /\ review.active
    /\ review.current_index >= 1
    /\ review.reviewed_items # <<>>
    /\ ~final_ocr_data.present

\* an item without its confidence: its text fields (and what else it holds)
WithoutConfidence(item) == [key \in DOMAIN item \ {"confidence"} |-> item[key]]

\* two records agree in everything but the confidences of their list items
SameTexts(a, b) ==
    /\ DOMAIN a = DOMAIN b
    /\ \A sec \in DOMAIN a :
          IF ~IsList(a[sec]) THEN a[sec] = b[sec]
          ELSE /\ IsList(b[sec])
               /\ Len(a[sec].items) = Len(b[sec].items)
               /\ \A i \in 1..Len(a[sec].items) :
                     WithoutConfidence(a[sec].items[i]) = WithoutConfidence(b[sec].items[i])

\* C36: round trip.  Every item of a review resolves, by its (section,
\* index, field name), to its text in the record of the review; and when
\* every item was submitted with its text unchanged, the patch of the upload
\* meets no address error and yields a record whose text fields are those of
\* the original.
C36_UnchangedReviewRoundTrip ==
    /\ [](\A i \in 1..Len(review.items) :
              /\ ValidAddress(review.ocr_data, review.items[i])
              /\ review.items[i].field_name
                    \in DOMAIN ItemAt(review.ocr_data, review.items[i])
              /\ ItemAt(review.ocr_data, review.items[i])[review.items[i].field_name]
                    = review.items[i].text)
    /\ [][ ( /\ result'.op = "upload"
             /\ final_ocr_data' # final_ocr_data
             /\ \A i \in 1..Len(review.reviewed_items) : IsAccepted(review, i) )
           => /\ \A i \in 1..Len(review.reviewed_items) :
                    ValidAddress(review.ocr_data, review.reviewed_items[i])
              /\ ~ReturnsOriginal(review.ocr_data, review.reviewed_items)
              /\ SameTexts(final_ocr_data'.data, review.ocr_data) ]_vars

C36_Witness ==
    /\ result.op = "upload"
    /\ result.kind = "uploaded"
    /\ result.count = 3
    /\ final_ocr_data.present
    /\ final_ocr_data.data \in Records
    /\ detect_low_confidence_items(final_ocr_data.data) # <<>>
    /\ Len(detect_low_confidence_items(final_ocr_data.data)) = 3

\* C37: the counts of the returned dict partition the outcome list:
\* created_count + skipped_count + failed_count = total_tasks, and
\* total_tasks is the number of input items with a non-blank text.
C37_CountsPartitionOutcomes ==
    upload.pc = "done" =>
       /\ upload.returned.total_tasks = Len(NonBlankTexts(upload.task_data))
       /\ "failed_count" \in DOMAIN upload.returned
             => upload.returned.created_count + upload.returned.skipped_count
                   + upload.returned.failed_count = upload.returned.total_tasks

\* C38: every add_task call carries the priority of the section its item was
\* collected from: 1 for prepare_priority, 3 for to_do.
C38_PriorityOfOwnSection ==
    \A k \in CallsOf("add_task") :
        api_calls[k].priority =
            IF upload.collected[api_calls[k].item].section = "prepare_priority"
            THEN 1 ELSE 3

====
